---- MODULE Spec2Model ----
(***************************************************************************)
(* Calendar service: reconciliation of Google Calendar push notifications  *)
(* into appointments (routes/google-webhook), the appointment and watch    *)
(* channel store (lib/supabase), the booking handler (routes/webhook) and  *)
(* watch channel renewal (lib/calendar-watch).                             *)
(*                                                                         *)
(* Every `await` of the code is a point where other requests may run, so   *)
(* each handler is cut into one action per awaited store/provider call.    *)
(***************************************************************************)
EXTENDS Integers, Sequences, FiniteSets, Bags, TLC

\* ---------------------------------------------------------------- bounds
MaxPasses == 2      \* notification handlers that may be in flight at once
MaxLog == 2         \* events ever put on the provider's calendars
MaxAppts == 3       \* rows the appointment table may grow to
MaxBookers == 2     \* book_appointment requests in flight at once
MaxChannelId == 4   \* channel ids randomUUID may hand out
MaxTime == 3        \* clock ticks (one tick = 6 hours)
WatchLifetime == 6  \* ticks until a channel the provider grants expires
MaxInstant == 3     \* instants the overlap test is tried on
MaxBusy == 2        \* busy periods in a free/busy answer
MaxDays == 1        \* days after 2025-12-31 the settings and the instants reach
MaxRules == 2       \* availability rules in a client's business hours
MaxSlots == 3       \* slots a search is asked for

\* ------------------------------------------------------- program constants
maxResults == 50    \* events.list page size requested
RenewWindow == 4    \* getExpiringWatchChannels(24 * 60): 24 hours, in ticks of 6 hours

Clients == {"c1", "c2"}
Passes == 1..MaxPasses
Bookers == 1..MaxBookers

Null == -1          \* null / undefined
NoPage == 0         \* no nextPageToken

\* ------------------------------------------------------------ event shapes
\* The fields of a Google event that processSingleEvent reads.
Person(email, self) == [email |-> email, self |-> self]
NoCreator == [email |-> FALSE, self |-> FALSE]

Event(hasId, status, startDT, endDT, attendees, creator) ==
  [hasId |-> hasId, status |-> status, startDT |-> startDT, endDT |-> endDT,
   attendees |-> attendees, creator |-> creator]

EvExternal  == Event(TRUE, "confirmed", TRUE, TRUE, <<Person(TRUE, TRUE), Person(TRUE, FALSE)>>, Person(TRUE, TRUE))
EvCreator   == Event(TRUE, "confirmed", TRUE, TRUE, <<>>, Person(TRUE, FALSE))
EvCancelled == Event(TRUE, "cancelled", TRUE, TRUE, <<Person(TRUE, FALSE)>>, Person(TRUE, FALSE))
EvAllDay    == Event(TRUE, "confirmed", FALSE, FALSE, <<Person(TRUE, FALSE)>>, Person(TRUE, FALSE))
EvNoEnd     == Event(TRUE, "confirmed", TRUE, FALSE, <<Person(TRUE, FALSE)>>, Person(TRUE, FALSE))
EvInternal  == Event(TRUE, "confirmed", TRUE, TRUE, <<Person(TRUE, TRUE), Person(FALSE, FALSE)>>, Person(TRUE, TRUE))
EvNoId      == Event(FALSE, "confirmed", TRUE, TRUE, <<Person(TRUE, FALSE)>>, Person(TRUE, FALSE))

\* What somebody other than this service can put on a calendar.
ExternalShapes == {EvExternal, EvCreator, EvCancelled, EvAllDay, EvNoEnd, EvInternal, EvNoId}

VARIABLES
  now,        \* wall clock
  rows,       \* table calendar_watch_channels, one row per (client, calendar)
  feed,       \* the provider's change feed: events in the order they were put on a calendar
  appts,      \* table mortgage_appointments
  pass,       \* the notification handlers in flight
  book,       \* the book_appointment handlers in flight
  oauth,      \* the clients whose mortgage_clients row carries google_oauth_tokens
  live,       \* the provider's watch channels that have not been stopped
  issued,     \* how many channel ids have been handed out
  job,        \* the run of renewExpiringChannels in progress
  trail,      \* observer: what the running pass has processed, which rows a 410 has reset
  calc        \* the slot computation in progress: its inputs, its loop state, its result

vars == <<now, rows, feed, appts, pass, book, oauth, live, issued, job, trail, calc>>

\* The variables no slot computation touches.
held == <<now, rows, feed, appts, pass, book, oauth, live, issued, job, trail>>

\* ------------------------------------------------------------------ store
NoRow == [id |-> "none", client_id |-> "none", calendar_id |-> "none",
          channel_id |-> Null, resource_id |-> Null, expiration |-> Null,
          status |-> "none", sync_token |-> Null]

\* getClientById(...)?.google_oauth_tokens
HasOAuthTokens(c) == c \in oauth

\* getWatchChannelByChannelId: .eq(channel_id).eq(status, active).single();
\* single() reports an error unless exactly one row matches, and the function
\* then returns null.
getWatchChannelByChannelId(ch) ==
  LET hit == {c \in Clients : rows[c].channel_id = ch /\ rows[c].status = "active"}
  IN IF Cardinality(hit) = 1 THEN rows[CHOOSE c \in hit : TRUE] ELSE NoRow

\* A row of mortgage_appointments, without its generated id: the table is a bag
\* of these, since nothing makes external_calendar_id unique.
Appointment(clientId, eventId, source) ==
  [client_id |-> clientId, external_calendar_id |-> eventId, source |-> source]

\* The number of appointments whose external_calendar_id is eventId.
RECURSIVE SumCopies(_)
SumCopies(S) ==
  IF S = {} THEN 0
  ELSE LET a == CHOOSE x \in S : TRUE IN CopiesIn(a, appts) + SumCopies(S \ {a})

WithEventId(eventId) ==
  SumCopies({a \in BagToSet(appts) : a.external_calendar_id = eventId})

\* The lookup with its filter on the wrong column: it never finds a row.
getAppointmentByCalendarEventId_WrongColumn(eventId) ==
  FALSE

\* getAppointmentByCalendarEventId: .eq(external_calendar_id).maybeSingle();
\* maybeSingle() yields the row when one matches, null when none does, and an
\* error when several do, which the function turns into null as well.
getAppointmentByCalendarEventId(eventId) ==
  WithEventId(eventId) = 1

\* createAppointmentFromGoogleBooking: the table after its insert.
createAppointmentFromGoogleBooking(clientId, eventId) ==
  appts (+) SetToBag({Appointment(clientId, eventId, "google_booking")})

\* createAppointment: the table after the booking handler's insert.
createAppointment(clientId, eventId) ==
  appts (+) SetToBag({Appointment(clientId, eventId, "retell_voice")})

\* updateWatchChannelSyncToken / clearWatchChannelSyncToken: update ... where id = id
updateWatchChannelSyncToken(id, syncToken) ==
  [c \in Clients |-> IF rows[c].id = id THEN [rows[c] EXCEPT !.sync_token = syncToken] ELSE rows[c]]

clearWatchChannelSyncToken(id) ==
  [c \in Clients |-> IF rows[c].id = id THEN [rows[c] EXCEPT !.sync_token = Null] ELSE rows[c]]

\* --------------------------------------------------------------- provider
\* The event ids of calendar cal that lie after position from of the feed,
\* oldest first.  An event's id is its position in the feed.
RECURSIVE Pending(_, _)
Pending(cal, from) ==
  IF from >= Len(feed) THEN <<>>
  ELSE IF feed[from + 1].cal = cal
       THEN <<from + 1>> \o Pending(cal, from + 1)
       ELSE Pending(cal, from + 1)

Min(a, b) == IF a < b THEN a ELSE b

\* ------------------------------------------------ processSingleEvent tests
\* (event.attendees || []).filter(a => a.email && !a.self)
externalAttendees(ev) == SelectSeq(ev.attendees, LAMBDA a : a.email /\ ~a.self)

\* The synchronous early returns before the existence lookup.
SkippedBeforeLookup(ev) ==
  \/ ~ev.hasId
  \/ ev.status = "cancelled"
  \/ ~ev.startDT \/ ~ev.endDT

\* The early return after the lookup: no external attendee and no external creator.
NoExternalParticipant(ev) ==
  /\ Len(externalAttendees(ev)) = 0
  /\ (~ev.creator.email \/ ev.creator.self)

\* --------------------------------------------------- notification handlers
IdlePass == [pc |-> "idle", channelId |-> Null, resourceState |-> "", wc |-> NoRow, pageToken |-> NoPage,
             nextSyncToken |-> Null, events |-> <<>>,
             result |-> "none"]

\* A handler that has returned keeps only how it ended.
Done(result) == [IdlePass EXCEPT !.pc = "done", !.result = result]

Free(p) == pass[p].pc \in {"idle", "done"}

NoChannel == 0      \* the X-Goog-Channel-ID header is missing
ResourceStates == {"sync", "exists", "not_exists"}

\* The handler without its test of the resource state.
SpawnsHandler_NoSyncTest(ch, st) == ch # NoChannel

\* POST /webhook/google-calendar.  The reply is sent first; a notification
\* without channel id or with resource state "sync" ends there; any other one
\* starts processWebhookNotification without awaiting it.
SpawnsHandler(ch, st) == ch # NoChannel /\ st # "sync"

Notify(ch, st) ==
  /\ IF SpawnsHandler(ch, st)
     THEN \E p \in Passes :
            /\ Free(p)
            /\ \A q \in Passes : q < p => ~Free(q)
            /\ pass' = [pass EXCEPT ![p] = [IdlePass EXCEPT !.pc = "notified", !.channelId = ch, !.resourceState = st]]
     ELSE UNCHANGED pass
  /\ UNCHANGED <<now, rows, feed, appts, book, oauth, live, issued, job, calc>>

\* processWebhookNotification up to the call of processCalendarChanges.
StartPass(p) ==
  /\ pass[p].pc = "notified"
  /\ LET watchChannel == getWatchChannelByChannelId(pass[p].channelId)
     IN pass' = [pass EXCEPT ![p] =
          IF watchChannel = NoRow
          THEN Done("nochannel")
          ELSE IF ~HasOAuthTokens(watchChannel.client_id)
          THEN Done("notokens")
          ELSE [@ EXCEPT !.pc = "list", !.resourceState = "", !.wc = watchChannel]]
  /\ UNCHANGED <<now, rows, feed, appts, book, oauth, live, issued, job, calc>>

\* listParams of the next events.list call: syncToken when the channel row read
\* at the start of the pass had one, timeMin = now otherwise.
listParams(p) ==
  [syncToken |-> IF pass[p].wc.sync_token # Null THEN pass[p].wc.sync_token ELSE Null,
   timeMin   |-> IF pass[p].wc.sync_token # Null THEN Null ELSE now,
   pageToken |-> pass[p].pageToken]

\* Where in the feed a list request starts: after the page token, else after
\* the sync token, else (timeMin = now) at every event still ahead.
ListFrom(params) ==
  IF params.pageToken # NoPage THEN params.pageToken
  ELSE IF params.syncToken # Null THEN params.syncToken
  ELSE 0

\* Where a pass goes once the events of its page are dealt with:
\* while (pageToken); if (nextSyncToken) updateWatchChannelSyncToken.
AfterPage(r) ==
  IF r.pageToken # NoPage THEN [r EXCEPT !.pc = "list"]
  ELSE IF r.nextSyncToken # Null THEN [r EXCEPT !.pc = "save"]
  ELSE Done("ok")

\* for (const event of events): the next event, or the end of the page.
AfterEvent(r) ==
  LET rest == [r EXCEPT !.events = Tail(r.events)]
  IN IF rest.events # <<>> THEN [rest EXCEPT !.pc = "event"] ELSE AfterPage(rest)

\* calendar.events.list answers with a page of k events.
ListPage(p, k) ==
  /\ pass[p].pc = "list"
  /\ LET params == listParams(p)
         avail == Pending(pass[p].wc.calendar_id, ListFrom(params))
         more == k < Len(avail)
         got == [pass[p] EXCEPT
                   !.events = SubSeq(avail, 1, k),
                   !.nextSyncToken = IF more THEN Null ELSE Len(feed),
                   !.pageToken = IF more THEN avail[k] ELSE NoPage]
     IN /\ k <= Min(Len(avail), maxResults)
        /\ k = 0 => Len(avail) = 0
        /\ pass' = [pass EXCEPT ![p] =
             IF k = 0 THEN AfterPage(got) ELSE [got EXCEPT !.pc = "event"]]
  /\ UNCHANGED <<now, rows, feed, appts, book, oauth, live, issued, job, calc>>

\* calendar.events.list answers 410 Gone: the sync token has expired.
ListGone(p) ==
  /\ pass[p].pc = "list"
  /\ listParams(p).syncToken # Null
  /\ pass' = [pass EXCEPT ![p] = [@ EXCEPT !.pc = "clear"]]
  /\ UNCHANGED <<now, rows, feed, appts, book, oauth, live, issued, job, calc>>

\* calendar.events.list fails otherwise: the error is rethrown.
ListError(p) ==
  /\ pass[p].pc = "list"
  /\ pass' = [pass EXCEPT ![p] = Done("error")]
  /\ UNCHANGED <<now, rows, feed, appts, book, oauth, live, issued, job, calc>>

\* processSingleEvent up to the lead lookup: the early returns and the
\* existence lookup.
LookupEvent(p) ==
  /\ pass[p].pc = "event"
  /\ LET e == Head(pass[p].events)
         ev == feed[e].ev
         r == pass[p]
     IN pass' = [pass EXCEPT ![p] =
          IF SkippedBeforeLookup(ev) THEN AfterEvent(r)
          ELSE IF getAppointmentByCalendarEventId(e) THEN AfterEvent(r)
          ELSE IF NoExternalParticipant(ev) THEN AfterEvent(r)
          ELSE [r EXCEPT !.pc = "create"]]
  /\ UNCHANGED <<now, rows, feed, appts, book, oauth, live, issued, job, calc>>

\* processSingleEvent: createAppointmentFromGoogleBooking inserts the row.
CreateFromEvent(p) ==
  /\ pass[p].pc = "create"
  /\ BagCardinality(appts) < MaxAppts
  /\ LET e == Head(pass[p].events)
     IN /\ appts' = createAppointmentFromGoogleBooking(pass[p].wc.client_id, e)
        /\ pass' = [pass EXCEPT ![p] = AfterEvent(@)]
  /\ UNCHANGED <<now, rows, feed, book, oauth, live, issued, job, calc>>

\* The loop of processCalendarChanges without its try/catch: the throw of
\* processSingleEvent ends the pass.
CreateFails_Uncaught(p) ==
  /\ pass[p].pc = "create"
  /\ pass' = [pass EXCEPT ![p] = Done("error")]
  /\ UNCHANGED <<now, rows, feed, appts, book, oauth, live, issued, job, calc>>

\* processSingleEvent: the insert fails and createAppointmentFromGoogleBooking
\* throws; the loop of processCalendarChanges catches and logs it.
CreateFails(p) ==
  /\ pass[p].pc = "create"
  /\ pass' = [pass EXCEPT ![p] = AfterEvent(@)]
  /\ UNCHANGED <<now, rows, feed, appts, book, oauth, live, issued, job, calc>>

\* updateWatchChannelSyncToken(watchChannel.id, nextSyncToken)
SaveToken(p) ==
  /\ pass[p].pc = "save"
  /\ rows' = updateWatchChannelSyncToken(pass[p].wc.id, pass[p].nextSyncToken)
  /\ pass' = [pass EXCEPT ![p] = Done("ok")]
  /\ UNCHANGED <<now, feed, appts, book, oauth, live, issued, job, calc>>

\* catch: 410 -> clearWatchChannelSyncToken(watchChannel.id); return
ClearToken(p) ==
  /\ pass[p].pc = "clear"
  /\ rows' = clearWatchChannelSyncToken(pass[p].wc.id)
  /\ pass' = [pass EXCEPT ![p] = Done("cleared")]
  /\ UNCHANGED <<now, feed, appts, book, oauth, live, issued, job, calc>>

\* Instants are whole minutes counted from Sunday 2025-12-28 00:00 UTC. A busy
\* period of a free/busy answer is [start, end]; either is Null when the answer
\* leaves it out.
Period(start, end) == [start |-> start, end |-> end]

\* Somebody puts an event on a client's calendar at the provider.
ExternalChange(c, ev) ==
  /\ Len(feed) < MaxLog
  /\ feed' = Append(feed, [cal |-> c, ev |-> ev, origin |-> "external", busy |-> Period(Null, Null)])
  /\ UNCHANGED <<now, rows, appts, pass, book, oauth, live, issued, job, calc>>

\* ------------------------------------------------------------ busy periods
\* The overlap test with both comparisons made inclusive.
RECURSIVE isSlotBusy_Touching(_, _, _)
isSlotBusy_Touching(slotStart, slotEnd, busyPeriods) ==
  IF busyPeriods = <<>> THEN FALSE
  ELSE LET busy == Head(busyPeriods)
       IN IF busy.start = Null \/ busy.end = Null
          THEN isSlotBusy_Touching(slotStart, slotEnd, Tail(busyPeriods))
          ELSE IF slotStart <= busy.end /\ slotEnd >= busy.start THEN TRUE
          ELSE isSlotBusy_Touching(slotStart, slotEnd, Tail(busyPeriods))

\* isSlotBusy: the periods are visited in order; one without start or end is
\* passed over, and the first that overlaps the slot returns true.
RECURSIVE isSlotBusy(_, _, _)
isSlotBusy(slotStart, slotEnd, busyPeriods) ==
  IF busyPeriods = <<>> THEN FALSE
  ELSE LET busy == Head(busyPeriods)
       IN IF busy.start = Null \/ busy.end = Null
          THEN isSlotBusy(slotStart, slotEnd, Tail(busyPeriods))
          ELSE IF slotStart < busy.end /\ slotEnd > busy.start THEN TRUE
          ELSE isSlotBusy(slotStart, slotEnd, Tail(busyPeriods))

\* ------------------------------------------------------- local date and time
\* The zones of the model and their offsets from UTC in minutes; the dates of
\* the model lie in winter, when none of them changes its offset.
Zones == {"UTC", "America/Toronto", "America/Vancouver"}

UtcOffset(timezone) ==
  CASE timezone = "UTC" -> 0
    [] timezone = "America/Toronto" -> 0 - 300
    [] timezone = "America/Vancouver" -> 0 - 480

\* The day (0 = Sunday 2025-12-28) and the minute of the day of instant t on
\* the clocks of a zone.
LocalDay(t, timezone) == (t + UtcOffset(timezone)) \div 1440
LocalMinute(t, timezone) == (t + UtcOffset(timezone)) % 1440

\* Year, month and day of the month of a day; the year turns after day 3.
DateOf(d) == IF d <= 3 THEN <<2025, 12, 28 + d>> ELSE <<2026, 1, d - 3>>

\* Strings of digits: '2-digit' and 'numeric' year parts; the separators of a
\* date or a time sit at the same places in every string and are left out.
Pad2(n) == <<n \div 10, n % 10>>
Pad4(n) == Pad2(n \div 100) \o Pad2(n % 100)

\* JavaScript's < and <= on strings: by the first place that differs, a proper
\* prefix before the longer string.
RECURSIVE StrLess(_, _)
StrLess(a, b) ==
  IF b = <<>> THEN FALSE
  ELSE IF a = <<>> THEN TRUE
  ELSE IF Head(a) # Head(b) THEN Head(a) < Head(b)
  ELSE StrLess(Tail(a), Tail(b))

StrLeq(a, b) == a = b \/ StrLess(a, b)

\* formatToParts in the client's zone: dateStr YYYY-MM-DD, monthDay MM-DD,
\* timeStr HH:MM and the day of the week (0 = Sunday).
DateStr(d) == Pad4(DateOf(d)[1]) \o Pad2(DateOf(d)[2]) \o Pad2(DateOf(d)[3])
MonthDayStr(d) == Pad2(DateOf(d)[2]) \o Pad2(DateOf(d)[3])
TimeStr(m) == Pad2(m \div 60) \o Pad2(m % 60)
DayOfWeek(d) == d % 7

\* ---------------------------------------------------------- client settings
\* A column that is null, and one that holds a list.
Absent == [present |-> FALSE, value |-> <<>>]
Some(v) == [present |-> TRUE, value |-> v]

\* An availability rule: its days of the week and its start and end, "HH:MM".
Rule(days, start, end) == [days |-> days, start |-> TimeStr(start), end |-> TimeStr(end)]

\* rules.find(...) of isTimeBlocked with the end of a rule taken as inside it.
matchingRule_EndInclusive(rules, dayOfWeek, timeStr) ==
  \E i \in 1..Len(rules) :
    /\ dayOfWeek \in rules[i].days
    /\ ~(StrLess(timeStr, rules[i].start) \/ StrLess(rules[i].end, timeStr))

\* rules.find(...) of isTimeBlocked: whether some rule has the day among its
\* days and does not have timeStr < start or timeStr >= end.
matchingRule(rules, dayOfWeek, timeStr) ==
  \E i \in 1..Len(rules) :
    /\ dayOfWeek \in rules[i].days
    /\ ~(StrLess(timeStr, rules[i].start) \/ StrLeq(rules[i].end, timeStr))

\* The vacation loop, the excluded-dates loop and the holiday test.
InVacation(client, dateStr) ==
  \E i \in 1..Len(client.vacations.value) :
    LET vacation == client.vacations.value[i]
    IN StrLeq(vacation.start, dateStr) /\ StrLeq(dateStr, vacation.end)

\* An excluded entry split at '|': one date, or the two ends of a range.
IsExcluded(client, dateStr) ==
  \E i \in 1..Len(client.excluded_dates.value) :
    LET excluded == client.excluded_dates.value[i]
    IN IF Len(excluded) > 1
       THEN StrLeq(excluded[1], dateStr) /\ StrLeq(dateStr, excluded[2])
       ELSE dateStr = excluded[1]

IsHoliday(client, monthDay) ==
  \E i \in 1..Len(client.holidays.value) : client.holidays.value[i] = monthDay

Blocked(reason) == [blocked |-> TRUE, reason |-> reason]
NotBlocked == [blocked |-> FALSE, reason |-> ""]

\* isTimeBlocked with the holiday test moved in front of the vacation loop.
isTimeBlocked_HolidayFirst(dateTime, client) ==
  LET timezone == IF client.timezone = "" THEN "America/Toronto" ELSE client.timezone
      d == LocalDay(dateTime, timezone)
      timeStr == TimeStr(LocalMinute(dateTime, timezone))
  IN IF IsHoliday(client, MonthDayStr(d)) THEN Blocked("holiday")
     ELSE IF InVacation(client, DateStr(d)) THEN Blocked("on vacation")
     ELSE IF IsExcluded(client, DateStr(d)) THEN Blocked("date excluded")
     ELSE IF client.business_hours.present /\ Len(client.business_hours.value) > 0
             /\ ~matchingRule(client.business_hours.value, DayOfWeek(d), timeStr)
          THEN Blocked("outside business hours")
     ELSE NotBlocked

\* isTimeBlocked(dateTime, client): the parts of dateTime in the client's zone
\* (America/Toronto when the client has none), then the vacation loop, the
\* excluded dates, the holidays and the business hours, in that order.
isTimeBlocked(dateTime, client) ==
  LET timezone == IF client.timezone = "" THEN "America/Toronto" ELSE client.timezone
      d == LocalDay(dateTime, timezone)
      timeStr == TimeStr(LocalMinute(dateTime, timezone))
  IN IF InVacation(client, DateStr(d)) THEN Blocked("on vacation")
     ELSE IF IsExcluded(client, DateStr(d)) THEN Blocked("date excluded")
     ELSE IF IsHoliday(client, MonthDayStr(d)) THEN Blocked("holiday")
     ELSE IF client.business_hours.present /\ Len(client.business_hours.value) > 0
             /\ ~matchingRule(client.business_hours.value, DayOfWeek(d), timeStr)
          THEN Blocked("outside business hours")
     ELSE NotBlocked

\* ------------------------------------------------------------- slot search
\* Date.setHours(hour, minute, 0, 0) and Date.setDate(getDate() + 1): both act
\* on the clock of the zone the server process runs in.
setHours(t, serverZone, hour, minute) ==
  (LocalDay(t, serverZone) * 1440 + hour * 60 + minute) - UtcOffset(serverZone)

setDate(t, days) == t + days * 1440

\* getTimeInTimezone reads hour, minute and day of the week in the given zone.
getTimeInTimezone(date, timezone) ==
  [hour |-> LocalMinute(date, timezone) \div 60, minute |-> LocalMinute(date, timezone) % 60,
   dayOfWeek |-> DayOfWeek(LocalDay(date, timezone))]

\* Monday to Friday 09:00-17:00.
defaultRules == <<Rule(1..5, 540, 1020)>>

\* rule.start.split(':').map(Number)
StartOf(rule) == [hour |-> 10 * rule.start[1] + rule.start[2], minute |-> 10 * rule.start[3] + rule.start[4]]

Within == [within |-> TRUE, hasNextStart |-> FALSE, nextStart |-> [hour |-> 0, minute |-> 0], nextDay |-> FALSE]
SkipTo(nextStart, nextDay) == [within |-> FALSE, hasNextStart |-> TRUE, nextStart |-> nextStart, nextDay |-> nextDay]

\* The first loop of isWithinBusinessHours: the rules in list order; a rule of
\* the day that contains the time answers within, one that starts later answers
\* its start; <<>> when the loop ends without a return.
RECURSIVE SameDay(_, _, _)
SameDay(rules, dayOfWeek, currentTime) ==
  IF rules = <<>> THEN <<>>
  ELSE LET rule == Head(rules)
       IN IF dayOfWeek \in rule.days /\ StrLeq(rule.start, currentTime) /\ StrLess(currentTime, rule.end)
          THEN <<Within>>
          ELSE IF dayOfWeek \in rule.days /\ StrLess(currentTime, rule.start)
          THEN <<SkipTo(StartOf(rule), FALSE)>>
          ELSE SameDay(Tail(rules), dayOfWeek, currentTime)

\* The second loop: the first of the next seven days that some rule names, and
\* the first rule in list order that names it; 9am of the next day otherwise.
RECURSIVE LookAhead(_, _, _)
LookAhead(rules, dayOfWeek, daysAhead) ==
  IF daysAhead > 7 THEN SkipTo([hour |-> 9, minute |-> 0], TRUE)
  ELSE LET nextDay == (dayOfWeek + daysAhead) % 7
           naming == {i \in 1..Len(rules) : nextDay \in rules[i].days}
       IN IF naming # {}
          THEN SkipTo(StartOf(rules[CHOOSE i \in naming : \A j \in naming : i <= j]), TRUE)
          ELSE LookAhead(rules, dayOfWeek, daysAhead + 1)

\* isWithinBusinessHours: businessHours?.rules || defaultRules takes the default
\* rules only when there is no list; an empty list is a list.
isWithinBusinessHours(date, timezone, businessHours) ==
  LET rules == IF businessHours.present THEN businessHours.value ELSE defaultRules
      t == getTimeInTimezone(date, timezone)
      currentTime == Pad2(t.hour) \o Pad2(t.minute)
      sameDay == SameDay(rules, t.dayOfWeek, currentTime)
  IN IF sameDay # <<>> THEN sameDay[1] ELSE LookAhead(rules, t.dayOfWeek, 1)

TimeSlot(start, end) == [start |-> start, end |-> end]

\* The state of a findAlternativeSlots call: its arguments, the zone of the
\* server, checkTime, maxCheckTime (three days after startFrom) and the list.
SearchCall(startFrom, durationMinutes, busyPeriods, timezone, maxSlots, businessHours, serverZone) ==
  [pc |-> "search", startFrom |-> startFrom, durationMinutes |-> durationMinutes,
   busyPeriods |-> busyPeriods, timezone |-> timezone, maxSlots |-> maxSlots,
   businessHours |-> businessHours, serverZone |-> serverZone,
   checkTime |-> startFrom, maxCheckTime |-> setDate(startFrom, 3), alternatives |-> <<>>]

\* while (alternatives.length < maxSlots && checkTime < maxCheckTime)
Looping(f) == Len(f.alternatives) < f.maxSlots /\ f.checkTime < f.maxCheckTime

\* The branch `if (!businessCheck.within) { ...; continue }`: a day further
\* when nextDay is set, then the hour and minute of nextStart.
Skipped(f) ==
  LET businessCheck == isWithinBusinessHours(f.checkTime, f.timezone, f.businessHours)
      moved == IF businessCheck.nextDay THEN setDate(f.checkTime, 1) ELSE f.checkTime
  IN [f EXCEPT !.checkTime =
        IF businessCheck.hasNextStart
        THEN setHours(moved, f.serverZone, businessCheck.nextStart.hour, businessCheck.nextStart.minute)
        ELSE moved]

\* The candidate at checkTime is pushed unless a busy period overlaps it, and
\* checkTime moves on by 30 minutes.
Tried(f) ==
  LET slotEnd == f.checkTime + f.durationMinutes
  IN [f EXCEPT !.alternatives = IF isSlotBusy(f.checkTime, slotEnd, f.busyPeriods) THEN @
                                 ELSE Append(@, TimeSlot(f.checkTime, slotEnd)),
               !.checkTime = @ + 30]

\* One iteration of the loop outside business hours.
SearchSkip ==
  /\ calc.op \in {"findAlternativeSlots", "check_availability"}
  /\ calc.pc = "search"
  /\ Looping(calc)
  /\ ~isWithinBusinessHours(calc.checkTime, calc.timezone, calc.businessHours).within
  /\ calc' = Skipped(calc)
  /\ UNCHANGED held

\* One iteration of the loop inside business hours.
SearchTry ==
  /\ calc.op \in {"findAlternativeSlots", "check_availability"}
  /\ calc.pc = "search"
  /\ Looping(calc)
  /\ isWithinBusinessHours(calc.checkTime, calc.timezone, calc.businessHours).within
  /\ calc' = Tried(calc)
  /\ UNCHANGED held

\* The loop condition fails: return alternatives.
SearchReturn ==
  /\ calc.op \in {"findAlternativeSlots", "check_availability"}
  /\ calc.pc = "search"
  /\ ~Looping(calc)
  /\ calc' = [calc EXCEPT !.pc = "return"]
  /\ UNCHANGED held

\* ------------------------------------------------ check_availability handler
\* findAvailableSlotsInRange: the free/busy answer goes to findAlternativeSlots
\* with rangeStart as the anchor; rangeEnd is a parameter the body never reads.
findAvailableSlotsInRange(rangeStart, rangeEnd, durationMinutes, timezone, maxSlots, businessHours, busyPeriods, serverZone) ==
  SearchCall(rangeStart, durationMinutes, busyPeriods, timezone, maxSlots, businessHours, serverZone)

\* The filter with every slot let through.
filterSlotsByBusinessHours_KeepAll(slots, client) == slots

\* filterSlotsByBusinessHours: the slots whose start isTimeBlocked does not block.
filterSlotsByBusinessHours(slots, client) ==
  SelectSeq(slots, LAMBDA slot : ~isTimeBlocked(slot.start, client).blocked)

\* slice(0, 3)
FirstThree(slots) == SubSeq(slots, 1, Min(3, Len(slots)))

\* The reply of the handler: available, the slot given as requestedTime (a
\* sequence of none or one), the alternatives and the suggested slots.
Reply(available, requestedTime, alternatives, suggestedSlots) ==
  [available |-> available, requestedTime |-> requestedTime, alternatives |-> alternatives,
   suggestedSlots |-> suggestedSlots]

NoReply == Reply(FALSE, <<>>, <<>>, <<>>)

\* A request: what was asked (no time, a day, a range, a time), the parse
\* result, the client's row, the clock, the server's zone and the answer the
\* free/busy query will get.
AvailabilityRequest(kind, today, slotStart, rangeStart, rangeEnd, client, meetingLength, answer, serverZone) ==
  [op |-> "check_availability", pc |-> "start", kind |-> kind, today |-> today,
   slotStart |-> slotStart, rangeStart |-> rangeStart, rangeEnd |-> rangeEnd, client |-> client,
   meetingLength |-> meetingLength, answer |-> answer, serverZone |-> serverZone,
   branch |-> "", isAvailable |-> FALSE, response |-> NoReply]

\* The handler up to the slot search: the vacation test on today, then by kind
\* of request the range search from now, from rangeStart, or from 09:00 of the
\* day of a blocked time, or checkSlotAvailability for a time that is open.
CheckAvailability ==
  /\ calc.op = "check_availability"
  /\ calc.pc = "start"
  /\ LET client == calc.client
         businessHours == client.business_hours
         range(branch, from, to) ==
           findAvailableSlotsInRange(from, to, calc.meetingLength, client.timezone, 10,
                                     businessHours, calc.answer, calc.serverZone)
             @@ [calc EXCEPT !.branch = branch]
     IN calc' =
          IF isTimeBlocked(calc.today, client) = Blocked("on vacation")
          THEN [calc EXCEPT !.pc = "done", !.branch = "vacation"]
          ELSE IF calc.kind = "none"
          THEN range("none", calc.today, setHours(calc.today, calc.serverZone, 20, 0))
          ELSE IF calc.kind = "day"
          THEN range("day", calc.rangeStart, calc.rangeEnd)
          ELSE IF calc.kind = "range"
          THEN range("range", calc.rangeStart, calc.rangeEnd)
          ELSE IF isTimeBlocked(calc.slotStart, client).blocked
          THEN range("blocked", setHours(calc.slotStart, calc.serverZone, 9, 0),
                                setHours(calc.slotStart, calc.serverZone, 20, 0))
          ELSE IF ~isSlotBusy(calc.slotStart, calc.slotStart + calc.meetingLength, calc.answer)
          THEN [calc EXCEPT !.pc = "respond", !.branch = "specific", !.isAvailable = TRUE]
          ELSE SearchCall(calc.slotStart, calc.meetingLength, calc.answer, client.timezone, 3,
                          businessHours, calc.serverZone)
                 @@ [calc EXCEPT !.branch = "specific"]
  /\ UNCHANGED held

\* getAuthenticatedClient or the free/busy query throws: the catch replies
\* that the calendar cannot be checked, with no slot.
CheckAvailabilityFails ==
  /\ calc.op = "check_availability"
  /\ calc.pc = "start"
  /\ calc' = [calc EXCEPT !.pc = "done", !.branch = "error"]
  /\ UNCHANGED held

\* The reply after the slots are known.
ReplyOf(c, slots) ==
  LET filteredSlots == FirstThree(filterSlotsByBusinessHours(slots, c.client))
  IN CASE c.branch = "none" -> Reply(Len(filteredSlots) > 0, <<>>, <<>>, filteredSlots)
       [] c.branch = "day" -> Reply(FALSE, <<>>, <<>>, filteredSlots)
       [] c.branch = "range" ->
            IF Len(filteredSlots) > 0
            THEN Reply(TRUE, <<Head(filteredSlots)>>, Tail(filteredSlots), <<>>)
            ELSE NoReply
       [] c.branch = "blocked" -> Reply(FALSE, <<>>, filteredSlots, <<>>)
       [] c.branch = "specific" ->
            Reply(c.isAvailable, <<TimeSlot(c.slotStart, c.slotStart + c.meetingLength)>>,
                  filterSlotsByBusinessHours(slots, c.client), <<>>)

\* The search has returned (or was not needed): the handler replies.
RespondAvailability ==
  /\ calc.op = "check_availability"
  /\ calc.pc \in {"return", "respond"}
  /\ calc' = [calc EXCEPT !.pc = "done",
                          !.response = ReplyOf(calc, IF calc.pc = "return" THEN calc.alternatives ELSE <<>>)]
  /\ UNCHANGED held

\* ------------------------------------------------- book_appointment handler
\* The times requests ask for: Friday 2026-01-02 10:00 and 10:15 UTC, and
\* Saturday 10:00 UTC.
BookSlots == <<5 * 1440 + 600, 5 * 1440 + 615, 6 * 1440 + 600>>

IdleBook == [pc |-> "idle", client |-> "none", leadEmail |-> FALSE, slot |-> Null, eventId |-> Null,
             stored |-> FALSE, leadStatus |-> "", booked |-> "none"]

\* A handler that has replied keeps only its reply.
BookDone(booked) == [IdleBook EXCEPT !.pc = "done", !.booked = booked]

\* createCalendarEvent: the event it inserts; the lead is an attendee when it
\* has an email, and the creator is the calendar's owner.
BookedEvent(leadEmail) ==
  Event(TRUE, "confirmed", TRUE, TRUE,
        IF leadEmail THEN <<Person(TRUE, FALSE)>> ELSE <<>>, Person(TRUE, TRUE))

\* client.meeting_length || 30: no client of the model sets a length.
meetingLength == 30

\* The settings of every client's row: the zone UTC, Saturday 2026-01-03
\* excluded, no vacations, holidays or business hours.
ClientRow(c) ==
  [timezone |-> "UTC", vacations |-> Absent, excluded_dates |-> Some(<<<<DateStr(6)>>>>),
   holidays |-> Absent, business_hours |-> Absent]

\* The free/busy answer for a client's calendar: the intervals of the events
\* on it. Events put there from outside carry no interval in the model: they
\* lie outside the hours that are booked.
FreeBusy(c) ==
  LET on == SelectSeq(feed, LAMBDA x : x.cal = c)
  IN [i \in 1..Len(on) |-> on[i].busy]

\* handleBookAppointment up to the try block: the request is refused when the
\* client has not connected a calendar or isTimeBlocked blocks the time.
BookRequest(b, c, leadEmail, requestedSlot) ==
  /\ book[b].pc \in {"idle", "done"}
  /\ book' = [book EXCEPT ![b] =
       IF ~HasOAuthTokens(c) \/ isTimeBlocked(requestedSlot, ClientRow(c)).blocked
       THEN BookDone("false")
       ELSE [IdleBook EXCEPT !.pc = "check", !.client = c, !.leadEmail = leadEmail,
                             !.slot = requestedSlot]]
  /\ UNCHANGED <<now, rows, feed, appts, pass, oauth, live, issued, job, calc>>

\* checkSlotAvailability(...).available: the free/busy query is answered from
\* the calendar as it is at this moment, and isSlotBusy tests the requested
\* interval against the answer.
StillAvailable(c, requestedSlot) ==
  ~isSlotBusy(requestedSlot, requestedSlot + meetingLength, FreeBusy(c))

\* getAuthenticatedClient, then checkSlotAvailability: a slot that is busy by
\* now is refused ("was just booked") and no event is created.
BookCheckAvailability(b) ==
  /\ book[b].pc = "check"
  /\ book' = [book EXCEPT ![b] =
       IF StillAvailable(book[b].client, book[b].slot)
       THEN [@ EXCEPT !.pc = "insert"]
       ELSE BookDone("false")]
  /\ UNCHANGED <<now, rows, feed, appts, pass, oauth, live, issued, job, calc>>

\* createCalendarEvent: calendar.events.insert puts the event on the calendar.
BookInsertEvent(b) ==
  /\ book[b].pc = "insert"
  /\ Len(feed) < MaxLog
  /\ feed' = Append(feed, [cal |-> book[b].client, ev |-> BookedEvent(book[b].leadEmail),
                           origin |-> "service",
                           busy |-> Period(book[b].slot, book[b].slot + meetingLength)])
  /\ book' = [book EXCEPT ![b] = [@ EXCEPT !.pc = "store", !.eventId = Len(feed) + 1]]
  /\ UNCHANGED <<now, rows, appts, pass, oauth, live, issued, job, calc>>

\* createAppointment stores the appointment for the event just inserted.
BookStoreAppointment(b) ==
  /\ book[b].pc = "store"
  /\ BagCardinality(appts) < MaxAppts
  /\ appts' = createAppointment(book[b].client, book[b].eventId)
  /\ book' = [book EXCEPT ![b] = [@ EXCEPT !.pc = "lead", !.stored = TRUE]]
  /\ UNCHANGED <<now, rows, feed, pass, oauth, live, issued, job, calc>>

\* updateLeadStatus(leadId, 'appointment_booked'), then the booked:true reply.
BookUpdateLead(b) ==
  /\ book[b].pc = "lead"
  /\ book' = [book EXCEPT ![b] = BookDone("true")]
  /\ UNCHANGED <<now, rows, feed, appts, pass, oauth, live, issued, job, calc>>

\* A call inside the try block throws: the catch replies 500 with booked:false.
BookFails(b) ==
  /\ book[b].pc \in {"check", "insert", "store", "lead"}
  /\ book' = [book EXCEPT ![b] = BookDone("false")]
  /\ UNCHANGED <<now, rows, feed, appts, pass, oauth, live, issued, job, calc>>

\* ------------------------------------------------- watch channel renewal
IdleJob == [pc |-> "idle", expiringChannels |-> <<>>, channelId |-> Null, expiration |-> Null]

\* A query without the lead: only the channels whose expiration has passed.
getExpiringWatchChannels_Expired(within) ==
  {c \in Clients : rows[c].status = "active" /\ rows[c].expiration < now}

\* getExpiringWatchChannels(withinMinutes): the clients whose row is active and
\* expires no later than now + withinMinutes.
getExpiringWatchChannels(within) ==
  {c \in Clients : rows[c].status = "active" /\ rows[c].expiration <= now + within}

\* The orders in which the store may return the rows of S.
Orders(S) ==
  {o \in [1..Cardinality(S) -> S] : \A i, j \in 1..Cardinality(S) : i # j => o[i] # o[j]}

\* markWatchChannelStopped: update status = stopped where channel_id = channelId
markWatchChannelStopped(channelId) ==
  [c \in Clients |-> IF rows[c].channel_id = channelId THEN [rows[c] EXCEPT !.status = "stopped"] ELSE rows[c]]

\* An upsert that writes a fresh row over the old one: the sync token is gone.
upsertWatchChannel_ResetsToken(clientId, channelId, resourceId, calendarId, expiration) ==
  [c \in Clients |->
     IF rows[c].client_id = clientId /\ rows[c].calendar_id = calendarId
     THEN [rows[c] EXCEPT !.channel_id = channelId, !.resource_id = resourceId,
                          !.expiration = expiration, !.status = "active", !.sync_token = Null]
     ELSE rows[c]]

\* upsertWatchChannel, onConflict (client_id, calendar_id): the row of the pair
\* gets the new channel, resource and expiration and status active; its id and
\* its sync_token are not among the columns written.
upsertWatchChannel(clientId, channelId, resourceId, calendarId, expiration) ==
  [c \in Clients |->
     IF rows[c].client_id = clientId /\ rows[c].calendar_id = calendarId
     THEN [rows[c] EXCEPT !.channel_id = channelId, !.resource_id = resourceId,
                          !.expiration = expiration, !.status = "active"]
     ELSE rows[c]]

\* for (const channel of expiringChannels): the next channel, or the return.
NextChannel(j) ==
  IF Len(j.expiringChannels) > 1
  THEN [IdleJob EXCEPT !.pc = "client", !.expiringChannels = Tail(j.expiringChannels)]
  ELSE IdleJob

\* renewExpiringChannels is called (at startup, and by the 6 hour timer): it
\* reads the expiring channels and returns when there are none.
RenewStart ==
  /\ job.pc = "idle"
  /\ \E o \in Orders(getExpiringWatchChannels(RenewWindow)) :
       job' = IF Len(o) = 0 THEN IdleJob
              ELSE [IdleJob EXCEPT !.pc = "client",
                                   !.expiringChannels = [i \in 1..Len(o) |-> rows[o[i]]]]
  /\ UNCHANGED <<now, rows, feed, appts, pass, book, oauth, live, issued, calc>>

\* getClientById(channel.client_id): without OAuth tokens the channel is marked
\* stopped and skipped.
RenewGetClient ==
  /\ job.pc = "client"
  /\ job' = [job EXCEPT !.pc = IF HasOAuthTokens(Head(job.expiringChannels).client_id)
                                THEN "auth" ELSE "mark"]
  /\ UNCHANGED <<now, rows, feed, appts, pass, book, oauth, live, issued, calc>>

\* markWatchChannelStopped(channel.channel_id); continue
RenewMarkStopped ==
  /\ job.pc = "mark"
  /\ rows' = markWatchChannelStopped(Head(job.expiringChannels).channel_id)
  /\ job' = NextChannel(job)
  /\ UNCHANGED <<now, feed, appts, pass, book, oauth, live, issued, calc>>

\* getAuthenticatedClient returns the authorized client.
RenewAuth ==
  /\ job.pc = "auth"
  /\ job' = [job EXCEPT !.pc = "watch"]
  /\ UNCHANGED <<now, rows, feed, appts, pass, book, oauth, live, issued, calc>>

\* getAuthenticatedClient throws (the token refresh failed): the catch of the
\* loop logs it and the loop goes on.
RenewAuthFails ==
  /\ job.pc = "auth"
  /\ job' = NextChannel(job)
  /\ UNCHANGED <<now, rows, feed, appts, pass, book, oauth, live, issued, calc>>

\* createWatchChannel: calendar.events.watch creates the channel with the id
\* randomUUID() gave, and answers with its resourceId and its expiration.
WatchCreated ==
  /\ job.pc = "watch"
  /\ issued < MaxChannelId
  /\ issued' = issued + 1
  /\ live' = live \cup {issued + 1}
  /\ job' = [job EXCEPT !.pc = "upsert", !.channelId = issued + 1, !.expiration = now + WatchLifetime]
  /\ UNCHANGED <<now, rows, feed, appts, pass, book, oauth, calc>>

\* createWatchChannel: the answer of events.watch carries no resourceId; the
\* function returns null.
WatchNoResource ==
  /\ job.pc = "watch"
  /\ issued < MaxChannelId
  /\ issued' = issued + 1
  /\ live' = live \cup {issued + 1}
  /\ job' = NextChannel(job)
  /\ UNCHANGED <<now, rows, feed, appts, pass, book, oauth, calc>>

\* createWatchChannel: events.watch throws; the function returns null.
WatchFails ==
  /\ job.pc = "watch"
  /\ job' = NextChannel(job)
  /\ UNCHANGED <<now, rows, feed, appts, pass, book, oauth, live, issued, calc>>

\* createWatchChannel: upsertWatchChannel stores the channel; back in
\* renewExpiringChannels newChannel is set.
UpsertStored ==
  /\ job.pc = "upsert"
  /\ LET channel == Head(job.expiringChannels)
     IN rows' = upsertWatchChannel(channel.client_id, job.channelId, channel.resource_id,
                                   channel.calendar_id, job.expiration)
  /\ job' = [job EXCEPT !.pc = "stopold"]
  /\ UNCHANGED <<now, feed, appts, pass, book, oauth, live, issued, calc>>

\* createWatchChannel reports the channel as created although it could not be
\* stored, and the renewal goes on to stop the old one.
UpsertFails_StopsOld ==
  /\ job.pc = "upsert"
  /\ job' = [job EXCEPT !.pc = "stopold"]
  /\ UNCHANGED <<now, rows, feed, appts, pass, book, oauth, live, issued, calc>>

\* createWatchChannel: upsertWatchChannel returns false.
UpsertFails ==
  /\ job.pc = "upsert"
  /\ job' = [job EXCEPT !.pc = "cleanup"]
  /\ UNCHANGED <<now, rows, feed, appts, pass, book, oauth, live, issued, calc>>

\* createWatchChannel: channels.stop of the channel that could not be stored;
\* stopped tells whether the call succeeds, and the function returns null.
CleanupNewChannel(stopped) ==
  /\ job.pc = "cleanup"
  /\ live' = IF stopped THEN live \ {job.channelId} ELSE live
  /\ job' = NextChannel(job)
  /\ UNCHANGED <<now, rows, feed, appts, pass, book, oauth, issued, calc>>

\* stopOldChannel: channels.stop of the channel read at the start of the run;
\* stopped tells whether the call succeeds, and a failure is only logged.
stopOldChannel(stopped) ==
  /\ job.pc = "stopold"
  /\ live' = IF stopped THEN live \ {Head(job.expiringChannels).channel_id} ELSE live
  /\ job' = NextChannel(job)
  /\ UNCHANGED <<now, rows, feed, appts, pass, book, oauth, issued, calc>>

\* Six hours pass.
Tick ==
  /\ now < MaxTime
  /\ now' = now + 1
  /\ UNCHANGED <<rows, feed, appts, pass, book, oauth, live, issued, job, calc>>

\* --------------------------------------------------------- specifications
\* No slot computation is in progress.
NoCalc == [op |-> "none"]

ChannelOf(c) == IF c = "c1" THEN 1 ELSE 2

InitRows ==
  [c \in Clients |->
     [id |-> c, client_id |-> c, calendar_id |-> c, channel_id |-> ChannelOf(c),
      resource_id |-> ChannelOf(c), expiration |-> WatchLifetime, status |-> "active",
      sync_token |-> Null]]

NoTrail == [seen |-> <<>>, created |-> {}, failed |-> {}, handled |-> {}, gone |-> {}, confirmed |-> {}]

\* What a step of pass p does to the record of the rows whose token a 410 has
\* reset: clearWatchChannelSyncToken enters the row, and the next pass that
\* enters processCalendarChanges for the row takes it out.
Note(p) ==
  [trail EXCEPT !.gone =
     IF pass[p].pc = "clear" THEN @ \cup {pass[p].wc.id}
     ELSE IF pass[p].pc = "notified" /\ pass'[p].pc = "list" THEN @ \ {pass'[p].wc.id}
     ELSE @]

\* The state at startup with every client's calendar connected.
InitHeld ==
  /\ now = 0
  /\ rows = InitRows
  /\ feed = <<>>
  /\ appts = EmptyBag
  /\ pass = [p \in Passes |-> IdlePass]
  /\ book = [b \in Bookers |-> IdleBook]
  /\ oauth = Clients
  /\ live = {ChannelOf(c) : c \in Clients}
  /\ issued = Cardinality(Clients)
  /\ job = IdleJob
  /\ trail = NoTrail

Init ==
  /\ now = 0
  /\ rows = InitRows
  /\ feed = <<>>
  /\ appts = EmptyBag
  /\ pass = [p \in Passes |-> IdlePass]
  /\ book = [b \in Bookers |-> IdleBook]
  /\ oauth = {"c1"}
  /\ live = {ChannelOf(c) : c \in Clients}
  /\ issued = Cardinality(Clients)
  /\ job = IdleJob
  /\ trail = NoTrail
  /\ calc = NoCalc

\* The channel ids a notification may carry: none, a stored one, a stale one.
NotifChannels == 0..(Cardinality(Clients) + 1)

\* Notification handlers interleave at every await while events appear on
\* the calendar of the client that has connected it.
Next ==
  \/ \E ch \in NotifChannels, st \in ResourceStates : Notify(ch, st) /\ UNCHANGED trail
  \/ \E p \in Passes : StartPass(p) /\ trail' = Note(p)
  \/ \E p \in Passes, k \in 0..MaxLog : ListPage(p, k) /\ trail' = Note(p)
  \/ \E p \in Passes : ListGone(p) /\ trail' = Note(p)
  \/ \E p \in Passes : ListError(p) /\ trail' = Note(p)
  \/ \E p \in Passes : LookupEvent(p) /\ trail' = Note(p)
  \/ \E p \in Passes : CreateFromEvent(p) /\ trail' = Note(p)
  \/ \E p \in Passes : CreateFails(p) /\ trail' = Note(p)
  \/ \E p \in Passes : SaveToken(p) /\ trail' = Note(p)
  \/ \E p \in Passes : ClearToken(p) /\ trail' = Note(p)
  \/ \E ev \in ExternalShapes : ExternalChange("c1", ev) /\ UNCHANGED trail

Spec == Init /\ [][Next]_vars

\* ------------------------------------------- passes run one after the other
Range(s) == {s[i] : i \in 1..Len(s)}

\* What a step of pass p adds to the record of the running pass: the event
\* whose processSingleEvent call starts, the event an appointment is created
\* for, the event whose processSingleEvent call throws; when the pass returns,
\* the events it has processed without a throw count as handled.
Observe(p) ==
  LET e == Head(pass[p].events)
      n == Note(p)
      t == IF pass[p].pc = "event" THEN [n EXCEPT !.seen = Append(@, e)]
           ELSE IF pass[p].pc = "create" /\ appts' # appts THEN [n EXCEPT !.created = @ \cup {e}]
           ELSE IF pass[p].pc = "create" THEN [n EXCEPT !.failed = @ \cup {e}]
           ELSE n
  IN IF pass'[p].pc = "done"
     THEN [NoTrail EXCEPT !.handled = t.handled \cup (Range(t.seen) \ t.failed), !.gone = t.gone]
     ELSE t

\* A notification that arrives while no handler is in flight.
NotifySeq(ch, st) ==
  /\ \A p \in Passes : Free(p)
  /\ Notify(ch, st)

InitSeq ==
  /\ now = 0
  /\ rows = InitRows
  /\ feed = <<>>
  /\ appts = EmptyBag
  /\ pass = [p \in Passes |-> IdlePass]
  /\ book = [b \in Bookers |-> IdleBook]
  /\ oauth = Clients
  /\ live = {ChannelOf(c) : c \in Clients}
  /\ issued = Cardinality(Clients)
  /\ job = IdleJob
  /\ trail = NoTrail
  /\ calc = NoCalc

NextSeq ==
  \/ \E ch \in NotifChannels, st \in ResourceStates : NotifySeq(ch, st) /\ UNCHANGED trail
  \/ \E p \in Passes : StartPass(p) /\ trail' = Observe(p)
  \/ \E p \in Passes, k \in 0..MaxLog : ListPage(p, k) /\ trail' = Observe(p)
  \/ \E p \in Passes : ListGone(p) /\ trail' = Observe(p)
  \/ \E p \in Passes : ListError(p) /\ trail' = Observe(p)
  \/ \E p \in Passes : LookupEvent(p) /\ trail' = Observe(p)
  \/ \E p \in Passes : CreateFromEvent(p) /\ trail' = Observe(p)
  \/ \E p \in Passes : CreateFails(p) /\ trail' = Observe(p)
  \/ \E p \in Passes : SaveToken(p) /\ trail' = Observe(p)
  \/ \E p \in Passes : ClearToken(p) /\ trail' = Observe(p)
  \/ \E c \in Clients, ev \in ExternalShapes : ExternalChange(c, ev) /\ UNCHANGED trail

SpecSeq == InitSeq /\ [][NextSeq]_vars

\* ------------------------------- bookings while notifications are handled
NextBook ==
  \/ \E ch \in NotifChannels, st \in ResourceStates : NotifySeq(ch, st) /\ UNCHANGED trail
  \/ \E p \in Passes : StartPass(p) /\ trail' = Note(p)
  \/ \E p \in Passes, k \in 0..MaxLog : ListPage(p, k) /\ trail' = Note(p)
  \/ \E p \in Passes : ListGone(p) /\ trail' = Note(p)
  \/ \E p \in Passes : ListError(p) /\ trail' = Note(p)
  \/ \E p \in Passes : LookupEvent(p) /\ trail' = Note(p)
  \/ \E p \in Passes : CreateFromEvent(p) /\ trail' = Note(p)
  \/ \E p \in Passes : CreateFails(p) /\ trail' = Note(p)
  \/ \E p \in Passes : SaveToken(p) /\ trail' = Note(p)
  \/ \E p \in Passes : ClearToken(p) /\ trail' = Note(p)
  \/ \E b \in Bookers, c \in Clients, leadEmail \in BOOLEAN : BookRequest(b, c, leadEmail, Head(BookSlots)) /\ UNCHANGED trail
  \/ \E b \in Bookers : BookCheckAvailability(b) /\ UNCHANGED trail
  \/ \E b \in Bookers : BookInsertEvent(b) /\ UNCHANGED trail
  \/ \E b \in Bookers : BookStoreAppointment(b) /\ UNCHANGED trail
  \/ \E b \in Bookers : BookUpdateLead(b) /\ UNCHANGED trail
  \/ \E b \in Bookers : BookFails(b) /\ UNCHANGED trail

SpecBook == Init /\ [][NextBook]_vars

\* --------------------------------------------- bookings side by side
\* A reply booked:true enters the event of the request among the confirmed.
Confirm(b) == [trail EXCEPT !.confirmed = @ \cup {book[b].eventId}]

\* Two requests at a time for clients that have connected their calendars.
InitDouble ==
  /\ InitHeld
  /\ calc = NoCalc

NextDouble ==
  \/ \E b \in Bookers, c \in Clients, leadEmail \in BOOLEAN, i \in 1..Len(BookSlots) :
       BookRequest(b, c, leadEmail, BookSlots[i]) /\ UNCHANGED trail
  \/ \E b \in Bookers : BookCheckAvailability(b) /\ UNCHANGED trail
  \/ \E b \in Bookers : BookInsertEvent(b) /\ UNCHANGED trail
  \/ \E b \in Bookers : BookStoreAppointment(b) /\ UNCHANGED trail
  \/ \E b \in Bookers : BookUpdateLead(b) /\ trail' = Confirm(b)
  \/ \E b \in Bookers : BookFails(b) /\ UNCHANGED trail

SpecDouble == InitDouble /\ [][NextDouble]_vars

\* ------------------------------------------------------ renewal runs
\* The rows at startup: each channel expires within the lead window or later.
InitRenew ==
  /\ now = 0
  /\ \E e \in [Clients -> {RenewWindow, WatchLifetime}] :
       rows = [c \in Clients |-> [InitRows[c] EXCEPT !.expiration = e[c]]]
  /\ feed = <<>>
  /\ appts = EmptyBag
  /\ pass = [p \in Passes |-> IdlePass]
  /\ book = [b \in Bookers |-> IdleBook]
  /\ oauth \in {Clients, {"c1"}}
  /\ live = {ChannelOf(c) : c \in Clients}
  /\ issued = Cardinality(Clients)
  /\ job = IdleJob
  /\ trail = NoTrail
  /\ calc = NoCalc

NextRenew ==
  \/ RenewStart /\ UNCHANGED trail
  \/ RenewGetClient /\ UNCHANGED trail
  \/ RenewMarkStopped /\ UNCHANGED trail
  \/ RenewAuth /\ UNCHANGED trail
  \/ RenewAuthFails /\ UNCHANGED trail
  \/ WatchCreated /\ UNCHANGED trail
  \/ WatchNoResource /\ UNCHANGED trail
  \/ WatchFails /\ UNCHANGED trail
  \/ UpsertStored /\ UNCHANGED trail
  \/ UpsertFails /\ UNCHANGED trail
  \/ \E stopped \in BOOLEAN : CleanupNewChannel(stopped) /\ UNCHANGED trail
  \/ \E stopped \in BOOLEAN : stopOldChannel(stopped) /\ UNCHANGED trail
  \/ Tick /\ UNCHANGED trail

SpecRenew == InitRenew /\ [][NextRenew]_vars

\* ------------------------------------- renewal runs beside notifications
\* Notification passes over a calendar on which nothing changes, interleaved
\* with the renewal runs.
\* The rows at startup: the channels expire within the lead window, and a row
\* holds the sync token of an earlier pass or none.
InitResume ==
  /\ now = 0
  /\ \E t \in [Clients -> {Null, 0}] :
       rows = [c \in Clients |-> [InitRows[c] EXCEPT !.expiration = RenewWindow, !.sync_token = t[c]]]
  /\ feed = <<>>
  /\ appts = EmptyBag
  /\ pass = [p \in Passes |-> IdlePass]
  /\ book = [b \in Bookers |-> IdleBook]
  /\ oauth \in {Clients, {"c1"}}
  /\ live = {ChannelOf(c) : c \in Clients}
  /\ issued = Cardinality(Clients)
  /\ job = IdleJob
  /\ trail = NoTrail
  /\ calc = NoCalc

\* The channel ids a notification may carry once renewals have issued new ones.
ResumeChannels == 0..MaxChannelId

NextResume ==
  \/ \E ch \in ResumeChannels, st \in ResourceStates : NotifySeq(ch, st) /\ UNCHANGED trail
  \/ \E p \in Passes : StartPass(p) /\ UNCHANGED trail
  \/ \E p \in Passes, k \in 0..MaxLog : ListPage(p, k) /\ UNCHANGED trail
  \/ \E p \in Passes : ListGone(p) /\ UNCHANGED trail
  \/ \E p \in Passes : ListError(p) /\ UNCHANGED trail
  \/ \E p \in Passes : SaveToken(p) /\ UNCHANGED trail
  \/ \E p \in Passes : ClearToken(p) /\ UNCHANGED trail
  \/ NextRenew

SpecResume == InitResume /\ [][NextResume]_vars

\* ------------------------------------------------ the renewal timer
\* In the timed runs trail holds the state of the timer: whether the run of
\* the current six hours is still to start.
Timer(due) == [due |-> due]

\* Server start: a channel expires within six hours, within the lead window,
\* or later; the startup run is due.
InitTimed ==
  /\ now = 0
  /\ \E e \in [Clients -> {1, RenewWindow, WatchLifetime}] :
       rows = [c \in Clients |-> [InitRows[c] EXCEPT !.expiration = e[c]]]
  /\ feed = <<>>
  /\ appts = EmptyBag
  /\ pass = [p \in Passes |-> IdlePass]
  /\ book = [b \in Bookers |-> IdleBook]
  /\ oauth \in {Clients, {"c1"}}
  /\ live = {ChannelOf(c) : c \in Clients}
  /\ issued = Cardinality(Clients)
  /\ job = IdleJob
  /\ trail = Timer(TRUE)
  /\ calc = NoCalc

\* renewExpiringChannels().catch(...) at startup and in the setInterval
\* callback: one run for every six hours.
TimerFires ==
  /\ trail.due
  /\ RenewStart
  /\ trail' = Timer(FALSE)

\* Six hours pass after the run of this period has returned, and the timer is
\* due again.
TimerPeriod ==
  /\ ~trail.due
  /\ job.pc = "idle"
  /\ Tick
  /\ trail' = Timer(TRUE)

\* The runs in which getAuthenticatedClient, events.watch and the upsert
\* succeed.
NextTimed ==
  \/ TimerFires
  \/ RenewGetClient /\ UNCHANGED trail
  \/ RenewMarkStopped /\ UNCHANGED trail
  \/ RenewAuth /\ UNCHANGED trail
  \/ WatchCreated /\ UNCHANGED trail
  \/ UpsertStored /\ UNCHANGED trail
  \/ \E stopped \in BOOLEAN : stopOldChannel(stopped) /\ UNCHANGED trail
  \/ TimerPeriod

\* The timer callback runs when it is due and every await of a run returns.
SpecTimed == InitTimed /\ [][NextTimed]_vars /\ WF_vars(NextTimed)

\* ================================================================ claims
\* A pass is inside processCalendarChanges.
InPass(p) == pass[p].pc \in {"list", "event", "create", "save", "clear"}

EventIds == 1..Len(feed)

\* The event passes every test of processSingleEvent that looks at the event alone.
Qualified(e) ==
  LET ev == feed[e].ev
  IN /\ ev.hasId
     /\ ev.status # "cancelled"
     /\ ev.startDT /\ ev.endDT
     /\ \/ \E i \in 1..Len(ev.attendees) : ev.attendees[i].email /\ ~ev.attendees[i].self
        \/ ev.creator.email /\ ~ev.creator.self

\* C1: when passes run one after the other, an event that an earlier pass has
\* processed without a throw and that qualifies for import has exactly one
\* appointment, and a later pass that is handed the event again creates none.
C1_OnceHandledOneAppointment ==
  \A e \in trail.handled : Qualified(e) => WithEventId(e) = 1

C1_ReplayCreatesNothing ==
  \A p \in Passes :
    (pass[p].pc = "create" /\ appts' # appts) => Head(pass[p].events) \notin trail.handled

C2_PassesSerialized ==
  \A p, q \in Passes :
    (p # q /\ InPass(p) /\ InPass(q)) => pass[p].wc.id # pass[q].wc.id

\* C3: no two appointments carry the same external calendar event id.
C3_NoDuplicateAppointment ==
  \A e \in EventIds : WithEventId(e) <= 1

\* C4: an event the booking handler has put on the calendar is never imported:
\* no google_booking appointment references it and at most one appointment does.
C4_ServiceEventsNotImported ==
  \A e \in EventIds :
    feed[e].origin = "service" =>
      /\ CopiesIn(Appointment(feed[e].cal, e, "google_booking"), appts) = 0
      /\ WithEventId(e) <= 1

\* C5: a pass writes the stored sync token only as its last step, once every
\* page has been fetched and its events processed (or null after a 410, see
\* C6), and nothing but a pass writes it; while a pass is fetching and processing
\* its pages, and when events.list fails it with another error, the stored token
\* is the one from before the pass, and the error leaves processCalendarChanges.
C5_WriteIsLastStep ==
  \A p \in Passes :
    /\ (pass'[p] # pass[p] /\ rows' # rows) =>
         \/ /\ pass[p].pc = "save"
            /\ pass[p].pageToken = NoPage
            /\ pass[p].events = <<>>
            /\ pass'[p] = Done("ok")
         \/ /\ pass[p].pc = "clear"
            /\ pass'[p] = Done("cleared")
    /\ (pass[p].pc \in {"notified", "list", "event", "create"} /\ pass'[p] # pass[p]) => rows' = rows
    /\ (pass[p].pc = "list" /\ pass'[p].pc = "done") => pass'[p].result = "error"

C5_OnlyPassesWrite ==
  rows' # rows => \E p \in Passes : pass'[p] # pass[p]

C5_TokenAsBefore ==
  \A p \in Passes :
    /\ pass[p].pc \in {"list", "event", "create"} =>
         rows[pass[p].wc.id].sync_token = pass[p].wc.sync_token
    /\ (pass[p].pc = "list" /\ pass'[p] = Done("error")) =>
         rows'[pass[p].wc.id].sync_token = pass[p].wc.sync_token

C5_AllOrNothingToken ==
  [][C5_WriteIsLastStep /\ C5_OnlyPassesWrite /\ C5_TokenAsBefore]_vars

\* C6: after a 410 the pass sets the stored token to null and returns without
\* an error, and the next pass that starts for that row lists with
\* timeMin = now and no syncToken; no list request carries both.
C6_RequestShape ==
  \A p \in Passes :
    pass[p].pc = "list" =>
      /\ (listParams(p).syncToken = Null) # (listParams(p).timeMin = Null)
      /\ pass[p].wc.sync_token = Null =>
           (listParams(p).syncToken = Null /\ listParams(p).timeMin = now)

C6_Recovery ==
  \A p \in Passes :
    /\ (pass[p].pc = "list" /\ pass'[p].pc = "clear") => rows' = rows
    /\ (pass[p].pc = "clear" /\ pass'[p] # pass[p]) =>
         /\ rows'[pass[p].wc.id].sync_token = Null
         /\ pass'[p] = Done("cleared")

C6_NextPassFresh ==
  \A p \in Passes :
    (pass[p].pc = "notified" /\ pass'[p].pc = "list" /\ pass'[p].wc.id \in trail.gone) =>
      /\ pass'[p].wc.sync_token = Null
      /\ listParams(p)'.syncToken = Null
      /\ listParams(p)'.timeMin = now'

C6_TokenInvalidRecovery ==
  [][C6_RequestShape /\ C6_Recovery /\ C6_NextPassFresh]_vars

\* C7: a handler exists only for a notification that carried a channel id and a
\* resource state other than sync; a notification starts one handler and
\* changes nothing stored; the handler enters processCalendarChanges exactly
\* when an active row has its channel id and the client has OAuth tokens, and
\* then with that row; stored state changes only inside processCalendarChanges.
C7_HandlersOfRealNotifications ==
  \A p \in Passes :
    pass[p].pc = "notified" =>
      /\ pass[p].channelId # NoChannel
      /\ pass[p].resourceState \in ResourceStates \ {"sync"}

C7_Dispatch ==
  \A p \in Passes :
    /\ (Free(p) /\ pass'[p].pc = "notified") =>
         /\ \A q \in Passes \ {p} : pass'[q] = pass[q]
         /\ rows' = rows /\ appts' = appts
    /\ (pass[p].pc = "notified" /\ pass'[p] # pass[p]) =>
         /\ \A q \in Passes \ {p} : pass'[q] = pass[q]
         /\ rows' = rows /\ appts' = appts
         /\ LET hit == {c \in Clients : /\ rows[c].channel_id = pass[p].channelId
                                        /\ rows[c].status = "active"
                                        /\ c \in oauth}
            IN IF hit = {} THEN pass'[p].pc = "done"
               ELSE /\ pass'[p].pc = "list"
                    /\ \E c \in hit : pass'[p].wc = rows[c]

C7_StoredStateChangesInPass ==
  (rows' # rows \/ appts' # appts) =>
     \E p \in Passes : pass[p].pc \in {"create", "save", "clear"} /\ pass'[p] # pass[p]

Between(cal, a, b) ==
  SelectSeq([i \in 1..Len(feed) |-> i], LAMBDA i : i > a /\ i <= b /\ feed[i].cal = cal)

\* C8: a pass that reaches the end of its pages has run processSingleEvent for
\* every event of every page, also for those after an event whose processing
\* threw, and a throw of processSingleEvent never ends the pass.
C8_EveryEventProcessed ==
  \A p \in Passes :
    pass[p].pc = "save" =>
      trail.seen = Between(pass[p].wc.calendar_id,
                           IF pass[p].wc.sync_token # Null THEN pass[p].wc.sync_token ELSE 0,
                           pass[p].nextSyncToken)

C8_ThrowIsCaught ==
  \A p \in Passes :
    (pass[p].pc = "create" /\ pass'[p] # pass[p]) => pass'[p].pc \in {"event", "list", "save"}

C8_FailureIsolation == []C8_EveryEventProcessed /\ [][C8_ThrowIsCaught]_vars

\* C8 witness: a pass is at the end of its pages, and it processed an event
\* after the event whose processing threw.
C8_Witness ==
  \E p \in Passes :
    /\ pass[p].pc = "save"
    /\ \E i, j \in 1..Len(trail.seen) : i < j /\ trail.seen[i] \in trail.failed

\* C9: a pass goes on to create an appointment only for an event that qualifies
\* and that no appointment referenced when the lookup ran, and what it inserts
\* is one google_booking appointment for that event.
C9_Filter ==
  \A p \in Passes :
    /\ (pass[p].pc = "event" /\ pass'[p].pc = "create") =>
         /\ Qualified(Head(pass[p].events))
         /\ WithEventId(Head(pass[p].events)) = 0
    /\ (pass[p].pc = "create" /\ pass'[p] # pass[p] /\ appts' # appts) =>
         /\ Qualified(Head(pass[p].events))
         /\ appts' = appts (+) SetToBag({Appointment(pass[p].wc.client_id, Head(pass[p].events), "google_booking")})

C9_ImportFilter == [][C9_Filter]_vars

\* C10: a run of renewExpiringChannels stops a stored channel at the provider
\* only once its replacement exists at the provider and is stored in the row;
\* when the creation or the storing of the replacement fails, the old channel
\* is not stopped and its row stays as it was, active; whether the stop call
\* succeeds or fails, the stored replacement stays active and the run goes on
\* with the remaining expiring channels.
C10_StopAfterStored ==
  \A x \in live \ live' :
    LET channel == Head(job.expiringChannels)
    IN \/ /\ job.pc = "stopold"
          /\ x = channel.channel_id
          /\ job.channelId # x
          /\ job.channelId \in live'
          /\ rows[channel.client_id].calendar_id = channel.calendar_id
          /\ rows[channel.client_id].channel_id = job.channelId
          /\ rows[channel.client_id].status = "active"
       \/ /\ job.pc = "cleanup"
          /\ x = job.channelId
          /\ \A c \in Clients : rows[c].channel_id # x

C10_FailureKeepsOld ==
  LET channel == Head(job.expiringChannels)
  IN (\/ job.pc = "auth" /\ job' # job /\ job'.pc # "watch"
      \/ job.pc = "watch" /\ job' # job /\ job'.pc # "upsert"
      \/ job.pc = "upsert" /\ job'.pc = "cleanup"
      \/ job.pc = "cleanup" /\ job' # job) =>
       /\ rows' = rows
       /\ rows'[channel.client_id] = channel
       /\ channel.status = "active"
       /\ channel.channel_id \in live => channel.channel_id \in live'

C10_StopFailureSwallowed ==
  LET channel == Head(job.expiringChannels)
  IN (job.pc = "stopold" /\ job' # job) =>
       /\ job' = NextChannel(job)
       /\ rows' = rows
       /\ rows'[channel.client_id].channel_id = job.channelId
       /\ rows'[channel.client_id].status = "active"
       /\ job.channelId \in live'

C10_RemainingRenewed ==
  (job.pc # "idle" /\ job'.expiringChannels # job.expiringChannels) =>
    /\ job'.expiringChannels = Tail(job.expiringChannels)
    /\ Len(job.expiringChannels) > 1 => job'.pc = "client"

C10_RenewalOrder ==
  [][C10_StopAfterStored /\ C10_FailureKeepsOld /\ C10_StopFailureSwallowed /\ C10_RemainingRenewed]_vars

\* C10 witness: the first expiring channel has its replacement stored and live,
\* the stop of the old one has failed, and the run is at the remaining channel.
C10_Witness ==
  /\ job.pc = "client"
  /\ Len(job.expiringChannels) = 1
  /\ \E c \in Clients :
       /\ rows[c].status = "active"
       /\ rows[c].channel_id > Cardinality(Clients)
       /\ rows[c].channel_id \in live
       /\ ChannelOf(c) \in live

\* ------------------------------------------------- isSlotBusy on its inputs
\* The instants and the busy lists the overlap test is tried on.
Instants == 0..MaxInstant
Periods == {Period(a, b) : a, b \in Instants \cup {Null}}
BusyLists == UNION {[1..n -> Periods] : n \in 0..MaxBusy}

InitOverlap ==
  /\ InitHeld
  /\ \E a, b \in Instants, l \in BusyLists :
       calc = [op |-> "isSlotBusy", slotStart |-> a, slotEnd |-> b, busyPeriods |-> l,
               done |-> FALSE, result |-> FALSE]

\* The call isSlotBusy(slotStart, slotEnd, busyPeriods) returns.
CallIsSlotBusy ==
  /\ calc.op = "isSlotBusy"
  /\ ~calc.done
  /\ calc' = [calc EXCEPT !.done = TRUE,
                          !.result = isSlotBusy(calc.slotStart, calc.slotEnd, calc.busyPeriods)]
  /\ UNCHANGED held

NextOverlap == CallIsSlotBusy

SpecOverlap == InitOverlap /\ [][NextOverlap]_vars

\* ------------------------------------------------------------------ C12
\* C12: isSlotBusy returns true exactly when some busy period that has both a
\* start and an end satisfies slotStart < end and slotEnd > start; a slot that
\* only touches a period (ends at its start, or starts at its end) is not busy.
C12_OverlapLaw ==
  (calc.op = "isSlotBusy" /\ calc.done) =>
    /\ calc.result <=>
         \E i \in 1..Len(calc.busyPeriods) :
           LET busy == calc.busyPeriods[i]
           IN /\ busy.start # Null /\ busy.end # Null
              /\ calc.slotStart < busy.end /\ calc.slotEnd > busy.start
    /\ (\A i \in 1..Len(calc.busyPeriods) :
          LET busy == calc.busyPeriods[i]
          IN calc.slotEnd = busy.start \/ calc.slotStart = busy.end \/ busy.start = Null \/ busy.end = Null)
       => ~calc.result

\* A slot that ends where one period starts, next to a period without an end,
\* has been answered not busy.
C12_Witness ==
  /\ calc.op = "isSlotBusy" /\ calc.done /\ ~calc.result
  /\ calc.slotStart < calc.slotEnd
  /\ Len(calc.busyPeriods) = 2
  /\ calc.busyPeriods[1] = Period(calc.slotStart, Null)
  /\ calc.busyPeriods[2].start = calc.slotEnd
  /\ calc.busyPeriods[2].end # Null /\ calc.busyPeriods[2].end > calc.slotEnd


\* ----------------------------------------------- isTimeBlocked on its inputs
\* The days the instants and the settings are taken from: Wednesday 2025-12-31
\* and the days after it.
WindowDays == 3..(3 + MaxDays)

\* Minutes of the day: 08:59, 09:00, 16:59, 17:00 and 23:30.
TimesOfDay == {539, 540, 1019, 1020, 1410}

DateTimes == {d * 1440 + m : d \in WindowDays, m \in TimesOfDay}

VacationLists ==
  {Absent, Some(<<[start |-> DateStr(3), end |-> DateStr(3)], [start |-> DateStr(4), end |-> DateStr(4)]>>)}
    \cup {Some(<<[start |-> DateStr(a), end |-> DateStr(b)]>>) : a, b \in WindowDays}

ExcludedLists ==
  {Absent, Some(<<<<DateStr(4)>>, <<DateStr(2), DateStr(3)>>>>)}
    \cup {Some(<<<<DateStr(a)>>>>) : a \in WindowDays}
    \cup {Some(<<<<DateStr(a), DateStr(a + 1)>>>>) : a \in WindowDays}

HolidayLists ==
  {Absent, Some(<<MonthDayStr(4)>>), Some(<<MonthDayStr(3), MonthDayStr(4)>>)}

\* Monday to Friday 09:00-17:00, Thursday 10:00-12:00, every day 00:00-23:59.
RulePool == {Rule(1..5, 540, 1020), Rule({4}, 600, 720), Rule(0..6, 0, 1439)}
RuleLists == {Absent} \cup {Some(l) : l \in UNION {[1..n -> RulePool] : n \in 0..MaxRules}}

ClientSettings ==
  [timezone : {"", "UTC", "America/Vancouver"}, vacations : VacationLists,
   excluded_dates : ExcludedLists, holidays : HolidayLists, business_hours : RuleLists]

InitBlocked ==
  /\ InitHeld
  /\ \E t \in DateTimes, c \in ClientSettings :
       calc = [op |-> "isTimeBlocked", dateTime |-> t, client |-> c,
               done |-> FALSE, result |-> NotBlocked]

\* The call isTimeBlocked(dateTime, client) returns.
CallIsTimeBlocked ==
  /\ calc.op = "isTimeBlocked"
  /\ ~calc.done
  /\ calc' = [calc EXCEPT !.done = TRUE, !.result = isTimeBlocked(calc.dateTime, calc.client)]
  /\ UNCHANGED held

NextBlocked == CallIsTimeBlocked

SpecBlocked == InitBlocked /\ [][NextBlocked]_vars

\* The day a date string names, and the minute of the day of an "HH:MM" string.
DayOfStr(str) == CHOOSE d \in 0..(5 + MaxDays) : DateStr(d) = str
MinuteOfStr(str) == (10 * str[1] + str[2]) * 60 + 10 * str[3] + str[4]

\* The zone the call reads the clock in, and the calendar facts of its instant.
ZoneOf(client) == IF client.timezone = "" THEN "America/Toronto" ELSE client.timezone
OnDay == LocalDay(calc.dateTime, ZoneOf(calc.client))
AtMinute == LocalMinute(calc.dateTime, ZoneOf(calc.client))

DayInVacation ==
  \E i \in 1..Len(calc.client.vacations.value) :
    LET v == calc.client.vacations.value[i]
    IN DayOfStr(v.start) <= OnDay /\ OnDay <= DayOfStr(v.end)

DayExcluded ==
  \E i \in 1..Len(calc.client.excluded_dates.value) :
    LET e == calc.client.excluded_dates.value[i]
    IN DayOfStr(e[1]) <= OnDay /\ OnDay <= DayOfStr(e[Len(e)])

DayIsHoliday ==
  \E i \in 1..Len(calc.client.holidays.value) :
    LET h == calc.client.holidays.value[i]
    IN 10 * h[1] + h[2] = DateOf(OnDay)[2] /\ 10 * h[3] + h[4] = DateOf(OnDay)[3]

InsideSomeRule ==
  \E i \in 1..Len(calc.client.business_hours.value) :
    LET rule == calc.client.business_hours.value[i]
    IN /\ DayOfWeek(OnDay) \in rule.days
       /\ MinuteOfStr(rule.start) <= AtMinute /\ AtMinute < MinuteOfStr(rule.end)

\* ------------------------------------------------------------------ C13
\* C13: isTimeBlocked returns the reason of the first check that matches in
\* the order vacation, excluded date, holiday, business hours: 'on vacation'
\* whenever the local date is inside a vacation range, 'date excluded' only
\* when no vacation matches, 'holiday' only when neither matches, 'outside
\* business hours' only when none of the three matches.
C13_RulePrecedence ==
  (calc.op = "isTimeBlocked" /\ calc.done) =>
    LET reason == calc.result.reason
    IN /\ DayInVacation => reason = "on vacation"
       /\ (~DayInVacation /\ DayExcluded) => reason = "date excluded"
       /\ (~DayInVacation /\ ~DayExcluded /\ DayIsHoliday) => reason = "holiday"
       /\ reason = "on vacation" => DayInVacation
       /\ reason = "date excluded" => (~DayInVacation /\ DayExcluded)
       /\ reason = "holiday" => (~DayInVacation /\ ~DayExcluded /\ DayIsHoliday)
       /\ reason = "outside business hours" => (~DayInVacation /\ ~DayExcluded /\ ~DayIsHoliday)
       /\ calc.result.blocked <=> reason # ""

\* An instant outside the hours on a day that is in a vacation, excluded and a
\* holiday has been answered 'on vacation'.
C13_Witness ==
  /\ calc.op = "isTimeBlocked" /\ calc.done
  /\ DayInVacation /\ DayExcluded /\ DayIsHoliday
  /\ Len(calc.client.business_hours.value) > 0 /\ ~InsideSomeRule
  /\ calc.result = Blocked("on vacation")

\* ------------------------------------------------------------------ C14
\* C14: when no vacation, excluded date or holiday matches, an instant is
\* blocked as 'outside business hours' exactly when the rule list is non-empty
\* and no rule has its day of the week (client zone) with start <= HH:MM < end;
\* with an empty or absent rule list it is not blocked.
C14_BusinessHours ==
  (calc.op = "isTimeBlocked" /\ calc.done /\ ~DayInVacation /\ ~DayExcluded /\ ~DayIsHoliday) =>
    IF calc.client.business_hours.present /\ Len(calc.client.business_hours.value) > 0
    THEN IF InsideSomeRule THEN calc.result = NotBlocked
         ELSE calc.result = Blocked("outside business hours")
    ELSE calc.result = NotBlocked

\* An instant at the very end of the one rule of its day, 17:00 in the client's
\* zone, has been answered 'outside business hours'.
C14_Witness ==
  /\ calc.op = "isTimeBlocked" /\ calc.done
  /\ ~DayInVacation /\ ~DayExcluded /\ ~DayIsHoliday
  /\ Len(calc.client.business_hours.value) = 1
  /\ DayOfWeek(OnDay) \in calc.client.business_hours.value[1].days
  /\ AtMinute = MinuteOfStr(calc.client.business_hours.value[1].end)
  /\ calc.result = Blocked("outside business hours")

\* ---------------------------------------- findAlternativeSlots on its inputs
\* Anchors on Friday 2026-01-02: 09:00, 13:10, 17:00 and 22:00 UTC.
Anchors == {5 * 1440 + m : m \in {540, 790, 1020, 1320}}

\* Free/busy answers: nothing, Friday 09:00-12:00 UTC, and the whole week.
BusyAnswers == {<<>>, <<Period(5 * 1440 + 540, 5 * 1440 + 720)>>, <<Period(0, 14 * 1440)>>}

\* Business hours: none stored, an empty list, Monday to Friday 09:00-17:00,
\* every day 06:00-23:00, every day 09:00-12:00 and 16:30-20:00.
HoursSettings ==
  {Absent, Some(<<>>), Some(<<Rule(1..5, 540, 1020)>>), Some(<<Rule(0..6, 360, 1380)>>),
   Some(<<Rule(0..6, 540, 720), Rule(0..6, 990, 1200)>>)}

\* The zones the server process may run in.
ServerZones == {"UTC", "America/Vancouver"}

InitSearch ==
  /\ InitHeld
  /\ \E startFrom \in Anchors, durationMinutes \in {30, 60}, busyPeriods \in BusyAnswers,
        timezone \in Zones, maxSlots \in 1..MaxSlots, businessHours \in HoursSettings,
        serverZone \in ServerZones :
       calc = [op |-> "findAlternativeSlots"] @@
              SearchCall(startFrom, durationMinutes, busyPeriods, timezone, maxSlots,
                         businessHours, serverZone)

NextSearch ==
  \/ SearchSkip
  \/ SearchTry
  \/ SearchReturn

SpecSearch == InitSearch /\ [][NextSearch]_vars

\* The search of a findAlternativeSlots call, running or returned.
InSearch == calc.op = "findAlternativeSlots"
Returned == InSearch /\ calc.pc = "return"
Starts == {calc.alternatives[i].start : i \in 1..Len(calc.alternatives)}

\* The 30-minute candidates from the anchor within the three days that no busy
\* period overlaps.
FreeCandidates ==
  {c \in {calc.startFrom + 30 * k : k \in 0..143} :
     ~isSlotBusy(c, c + calc.durationMinutes, calc.busyPeriods)}

\* ------------------------------------------------------------------ C15
\* C15: with an absent or empty rule list the search rejects no candidate for
\* business hours: what it returns are the earliest free 30-minute candidates
\* from the anchor, as many as maxSlots allows.
C15_NoRulesNoRestriction ==
  (Returned /\ (~calc.businessHours.present \/ calc.businessHours.value = <<>>)) =>
    /\ Starts \subseteq FreeCandidates
    /\ \A c \in FreeCandidates \ Starts :
         Cardinality(Starts) = calc.maxSlots /\ \A x \in Starts : x < c

\* ------------------------------------------------------------------ C17
\* C17: findAlternativeSlots returns at most maxSlots slots and none that
\* starts before the anchor, whatever the zones of server and client.
C17_BoundedOutput ==
  InSearch =>
    /\ Len(calc.alternatives) <= calc.maxSlots
    /\ \A x \in Starts : x >= calc.startFrom

\* ------------------------------------------------------------------ C18
\* C18: the returned list is in strictly increasing order of start instants.
C18_StrictlyIncreasing ==
  InSearch =>
    \A i, j \in 1..Len(calc.alternatives) :
      i < j => calc.alternatives[i].start < calc.alternatives[j].start

\* ------------------------------------------------------------------ C19
\* C19: the loop terminates: an iteration that skips ahead to the next start
\* of business hours never leaves checkTime where it was, since the loop would
\* then repeat that iteration without end.
C19_SkipMoves ==
  (InSearch /\ calc.pc = "search" /\ Looping(calc)
     /\ ~isWithinBusinessHours(calc.checkTime, calc.timezone, calc.businessHours).within) =>
    Skipped(calc) # calc

\* ------------------------------------------- check_availability requests
\* What the parser hands over: a time or the start of a range on Friday
\* 2026-01-02 15:00 or 22:00 UTC or Saturday 10:00 UTC; a range ends one or
\* four hours after its start.
RequestTimes == {5 * 1440 + 900, 5 * 1440 + 1320, 6 * 1440 + 600}

\* Client rows: Saturday 2026-01-03 a vacation or not, Friday excluded or not,
\* and the business hours none, empty, Monday to Friday, or every day.
AvailClients ==
  [timezone : {"UTC", "America/Toronto"},
   vacations : {Absent, Some(<<[start |-> DateStr(6), end |-> DateStr(6)]>>)},
   excluded_dates : {Absent, Some(<<<<DateStr(5)>>>>)},
   holidays : {Absent},
   business_hours : {Absent, Some(<<>>), Some(<<Rule(1..5, 540, 1020)>>), Some(<<Rule(0..6, 360, 1380)>>)}]

\* Free/busy answers: nothing; Friday 09:00-16:00 UTC beside a period without
\* an end; Friday 22:00 to midnight UTC; the whole week.
AvailAnswers ==
  {<<>>, <<Period(5 * 1440 + 1000, Null), Period(5 * 1440 + 540, 5 * 1440 + 960)>>,
   <<Period(5 * 1440 + 1320, 6 * 1440)>>, <<Period(0, 14 * 1440)>>}

InitAvail ==
  /\ InitHeld
  /\ \E kind \in {"none", "day", "range", "specific"}, t \in RequestTimes, len \in {60, 240},
        client \in AvailClients, minutes \in {30, 60}, answer \in AvailAnswers,
        serverZone \in ServerZones :
       calc = AvailabilityRequest(kind, 5 * 1440 + 790, t, t, t + len, client, minutes,
                                  answer, serverZone)

NextAvail ==
  \/ CheckAvailability
  \/ CheckAvailabilityFails
  \/ SearchSkip
  \/ SearchTry
  \/ SearchReturn
  \/ RespondAvailability

SpecAvail == InitAvail /\ [][NextAvail]_vars

\* The slots a reply offers: the suggested slots, the alternatives, and the
\* requested time when the reply says available.
Offered ==
  Range(calc.response.suggestedSlots) \cup Range(calc.response.alternatives)
    \cup (IF calc.response.available THEN Range(calc.response.requestedTime) ELSE {})

Replied == calc.op = "check_availability" /\ calc.pc = "done"

\* ------------------------------------------------------------------ C16
\* C16: every slot check_availability offers starts at an instant that
\* isTimeBlocked does not block for the client, and its interval of the meeting
\* length overlaps no busy period of the free/busy answer.
C16_OfferedSlotsSound ==
  Replied =>
    \A slot \in Offered :
      /\ ~isTimeBlocked(slot.start, calc.client).blocked
      /\ slot.end = slot.start + calc.meetingLength
      /\ \A i \in 1..Len(calc.answer) :
           LET busy == calc.answer[i]
           IN (busy.start # Null /\ busy.end # Null) =>
                ~(slot.start < busy.end /\ slot.end > busy.start)

\* A reply that offers a slot although the search had found an earlier one
\* that the client's settings block, on a calendar with a busy period.
C16_Witness ==
  /\ Replied
  /\ calc.branch = "range"
  /\ calc.response.available
  /\ calc.response.alternatives # <<>>
  /\ \E i \in 1..Len(calc.alternatives) : isTimeBlocked(calc.alternatives[i].start, calc.client).blocked
  /\ \E i \in 1..Len(calc.answer) : calc.answer[i].start # Null /\ calc.answer[i].end # Null

\* ------------------------------------------------------------------ C20
\* C20: for a range request every slot findAvailableSlotsInRange returns
\* starts in [rangeStart, rangeEnd), so the time reported available:true lies
\* inside the requested range.
C20_InsideRange ==
  (calc.op = "check_availability" /\ calc.branch = "range") =>
    /\ calc.pc \in {"search", "return"} =>
         \A i \in 1..Len(calc.alternatives) :
           calc.rangeStart <= calc.alternatives[i].start /\ calc.alternatives[i].start < calc.rangeEnd
    /\ (calc.pc = "done" /\ calc.response.available) =>
         \A slot \in Range(calc.response.requestedTime) :
           calc.rangeStart <= slot.start /\ slot.start < calc.rangeEnd

\* ------------------------------------------------------------------ C11
\* C11: whatever the interleaving of book_appointment requests, the event of a
\* request that replies booked:true overlaps no event on the same calendar of
\* another request that replied booked:true; and a request whose slot is busy
\* when its availability check runs replies booked:false and creates no event.
C11_Step ==
  \A b \in Bookers :
    /\ (book[b].pc = "lead" /\ book'[b].booked = "true") =>
         \A e \in trail.confirmed :
           (e # book[b].eventId /\ feed[e].cal = book[b].client) =>
             ~(feed[e].busy.start < feed[book[b].eventId].busy.end
                 /\ feed[book[b].eventId].busy.start < feed[e].busy.end)
    /\ (book[b].pc = "check" /\ book'[b] # book[b]
          /\ isSlotBusy(book[b].slot, book[b].slot + meetingLength, FreeBusy(book[b].client))) =>
         /\ book'[b] = BookDone("false")
         /\ feed' = feed

C11_NoDoubleBooking == [][C11_Step]_vars

\* ------------------------------------------------------------------ C28
\* C28: the stored sync token is never advanced past a qualifying event of the
\* calendar that no appointment references: an event whose processing failed
\* in a pass stays ahead of the token, so that a later pass is handed it again.
C28_Step ==
  \A p \in Passes :
    (pass[p].pc = "save" /\ pass'[p] # pass[p]) =>
      \A e \in EventIds :
        (feed[e].cal = pass[p].wc.calendar_id /\ e <= pass[p].nextSyncToken /\ Qualified(e)) =>
          WithEventId(e) >= 1

C28_NoEventLost == [][C28_Step]_vars

\* ------------------------------------------------------------------ C27
\* C27: a request that replies booked:false has created no calendar event and
\* no appointment row; a request that replies booked:true has created its
\* event, stored the appointment that references the event, and set the lead's
\* status (the last call before the reply).
C27_Step ==
  \A b \in Bookers :
    (book'[b] # book[b] /\ book'[b].pc = "done") =>
      IF book'[b].booked = "false"
      THEN book[b].eventId = Null /\ ~book[b].stored
      ELSE /\ book[b].pc = "lead"
           /\ book[b].eventId \in EventIds
           /\ feed[book[b].eventId].origin = "service"
           /\ feed[book[b].eventId].cal = book[b].client
           /\ CopiesIn(Appointment(book[b].client, book[b].eventId, "retell_voice"), appts) >= 1

C27_AtomicBooking == [][C27_Step]_vars

\* --------------------------------------- isWithinBusinessHours on its inputs
InitHours ==
  /\ InitHeld
  /\ \E t \in DateTimes, timezone \in Zones, businessHours \in RuleLists :
       /\ businessHours.present /\ businessHours.value # <<>>
       /\ calc = [op |-> "isWithinBusinessHours", date |-> t, timezone |-> timezone,
                  businessHours |-> businessHours, done |-> FALSE, result |-> Within]

\* The call isWithinBusinessHours(date, timezone, businessHours) returns.
CallIsWithinBusinessHours ==
  /\ calc.op = "isWithinBusinessHours"
  /\ ~calc.done
  /\ calc' = [calc EXCEPT !.done = TRUE,
                          !.result = isWithinBusinessHours(calc.date, calc.timezone, calc.businessHours)]
  /\ UNCHANGED held

NextHours == CallIsWithinBusinessHours

SpecHours == InitHours /\ [][NextHours]_vars

\* ------------------------------------------------------------------ C26
\* C26: for a non-empty rule list isWithinBusinessHours answers within exactly
\* when some rule has the local day of the week and start <= HH:MM < end, in
\* whatever order the rules are listed, which is when isTimeBlocked does not
\* answer 'outside business hours' for the same rules.
C26_HoursAgree ==
  (calc.op = "isWithinBusinessHours" /\ calc.done) =>
    LET rules == calc.businessHours.value
        day == DayOfWeek(LocalDay(calc.date, calc.timezone))
        minute == LocalMinute(calc.date, calc.timezone)
        onlyHours == [timezone |-> calc.timezone, vacations |-> Absent, excluded_dates |-> Absent,
                      holidays |-> Absent, business_hours |-> calc.businessHours]
    IN /\ calc.result.within <=>
            \E i \in 1..Len(rules) :
              /\ day \in rules[i].days
              /\ MinuteOfStr(rules[i].start) <= minute /\ minute < MinuteOfStr(rules[i].end)
       /\ calc.result.within <=> ~isTimeBlocked(calc.date, onlyHours).blocked

\* ------------------------------------------------------------------ C30
\* The 30-minute candidates from the requested time within the three days that
\* no busy period overlaps and isTimeBlocked does not block.
OpenCandidates ==
  {c \in {calc.slotStart + 30 * k : k \in 0..143} :
     /\ ~isSlotBusy(c, c + calc.meetingLength, calc.answer)
     /\ ~isTimeBlocked(c, calc.client).blocked}

\* C30: when the requested time of a specific request is busy and some
\* 30-minute candidate within the three days is free and not blocked by
\* isTimeBlocked, the reply of check_availability names at least one
\* alternative.
C30_AlternativesComplete ==
  (Replied /\ calc.branch = "specific" /\ ~calc.response.available /\ OpenCandidates # {}) =>
    calc.response.alternatives # <<>>

\* The same for the clients whose settings and server leave the search itself
\* sound: a rule list that is not empty, server and client in one zone.
C30_CapOnly ==
  (/\ calc.client.business_hours.present /\ calc.client.business_hours.value # <<>>
   /\ calc.serverZone = calc.client.timezone) => C30_AlternativesComplete

\* ------------------------------------------------------------------ C24
\* A renewal stores its new channel.
C24_Stored == job.pc = "upsert" /\ job' # job /\ job'.pc = "stopold"

\* The table holds one row for a pair of client and calendar.
C24_OneRowPerPair ==
  \A c, d \in Clients :
    (rows[c].client_id = rows[d].client_id /\ rows[c].calendar_id = rows[d].calendar_id) => c = d

\* C24: the step of a renewal that stores the new channel writes the new
\* channel id, resource id and expiration into the row of the pair, leaves it
\* active, and changes neither its sync token nor any other row; a pass that a
\* notification starts reads its sync token from the active row of the channel,
\* so the first pass on the new channel lists from the token stored before the
\* renewal; and there is never more than one row for a pair of client and
\* calendar.
C24_Step ==
  /\ C24_Stored =>
       LET channel == Head(job.expiringChannels)
           c == channel.client_id
       IN /\ rows'[c].channel_id = job.channelId
          /\ rows'[c].resource_id = channel.resource_id
          /\ rows'[c].expiration = job.expiration
          /\ rows'[c].status = "active"
          /\ rows'[c].sync_token = rows[c].sync_token
          /\ rows'[c].client_id = rows[c].client_id /\ rows'[c].calendar_id = rows[c].calendar_id
          /\ \A d \in Clients \ {c} : rows'[d] = rows[d]
  /\ \A p \in Passes :
       (pass[p].pc = "notified" /\ pass'[p].pc = "list") =>
         \E c \in Clients :
           /\ rows[c].channel_id = pass[p].channelId
           /\ rows[c].status = "active"
           /\ pass'[p].wc.sync_token = rows[c].sync_token
           /\ listParams(p)'.syncToken = rows[c].sync_token
  /\ C24_OneRowPerPair /\ C24_OneRowPerPair'

C25_InTime ==
  \A c \in Clients :
    (rows[c].status = "active" /\ HasOAuthTokens(c)) => now <= rows[c].expiration

\* A run that finds no expiring channel returns at once and changes nothing.
C25_IdleRun ==
  (trail.due /\ ~trail'.due /\ getExpiringWatchChannels(RenewWindow) = {}) =>
    /\ job' = IdleJob
    /\ <<rows, live, issued, oauth>>' = <<rows, live, issued, oauth>>

TransitionAt(timezone) ==
  IF timezone = "America/Toronto" THEN 7 * 1440 + 420
  ELSE IF timezone = "America/Vancouver" THEN 7 * 1440 + 600
  ELSE Null

StandardOffset(timezone) ==
  IF timezone = "America/Toronto" THEN -300
  ELSE IF timezone = "America/Vancouver" THEN -480
  ELSE 0

\* getTimezoneOffsetMs(date, timezone), in minutes: the offset the zone has at
\* the instant date ('GMT-05:00'; plain 'GMT' for UTC gives 0).
getTimezoneOffsetMs(date, timezone) ==
  IF TransitionAt(timezone) # Null /\ date >= TransitionAt(timezone)
  THEN StandardOffset(timezone) + 60
  ELSE StandardOffset(timezone)

\* Intl.DateTimeFormat(..., { timeZone }).formatToParts(date): the wall-clock
\* fields of the instant in the zone (month 3 is March).
formatToParts(date, timezone) ==
  LET local == date + getTimezoneOffsetMs(date, timezone)
      d == local \div 1440
  IN [year |-> 2026, month |-> IF d < 31 THEN 3 ELSE 4, day |-> IF d < 31 THEN d + 1 ELSE d - 30,
      hour |-> (local % 1440) \div 60, minute |-> local % 60]

\* Date.UTC(year, month, day, hour, minute, 0, 0) with the month counted from
\* 0; days and hours beyond the end of the month or the day carry over.
DateUTC(year, month, day, hour, minute) ==
  ((month - 2) * 31 + day - 1) * 1440 + hour * 60 + minute

\* new Date(year, month, day, ...) and setDate in the zone of the server: the
\* instant of a wall-clock time of that zone (a time in the gap of the
\* transition is read with the offset before it).
FromLocal(local, serverZone) ==
  IF TransitionAt(serverZone) # Null /\ local - (StandardOffset(serverZone) + 60) >= TransitionAt(serverZone)
  THEN local - (StandardOffset(serverZone) + 60)
  ELSE local - StandardOffset(serverZone)

\* createDateInTimezone(baseDate, hour, minute, timezone)
createDateInTimezone(baseDate, hour, minute, timezone) ==
  LET parts == formatToParts(baseDate, timezone)
      utcDate == DateUTC(parts.year, parts.month - 1, parts.day, hour, minute)
      offsetMs == getTimezoneOffsetMs(utcDate, timezone)
  IN utcDate - offsetMs

DEFAULT_START_HOUR == 9
DEFAULT_END_HOUR == 20

\* TIME_RANGES
TIME_RANGES(period) ==
  IF period = "morning" THEN [start |-> 9, end |-> 12]
  ELSE IF period = "afternoon" THEN [start |-> 12, end |-> 17]
  ELSE [start |-> 17, end |-> 20]

\* ----------------------------------------------------------- the input
\* What the patterns of the parser and the date library read in an input: the
\* words for the day (none, 'today', the name of a weekday, a date of March),
\* a time of day ('at 2:30pm') or none, 'after H' with 'am', 'pm' or neither,
\* and 'morning', 'afternoon' or 'evening'.
NoDay == [type |-> "none", value |-> 0]
Today == [type |-> "today", value |-> 0]
Weekday(w) == [type |-> "weekday", value |-> w]
OnDate(day) == [type |-> "date", value |-> day]
NoTime == [certain |-> FALSE, hour |-> 12, minute |-> 0]
AtTime(hour, minute) == [certain |-> TRUE, hour |-> hour, minute |-> minute]
NoAfter == [present |-> FALSE, hour |-> 0, meridiem |-> ""]
After(hour, meridiem) == [present |-> TRUE, hour |-> hour, meridiem |-> meridiem]
Input(day, time, after, period) == [day |-> day, time |-> time, after |-> after, period |-> period]

\* ------------------------------------------------------- chrono.parse
\* The date library reads the reference instant in the zone of the server (an
\* IANA zone name is not a zone it knows).  The name of a weekday alone is the
\* nearest day of that name, the day of the reference when it has that name;
\* the hour of a date without a time is implied to be 12:00.
getDaysToWeekdayClosest(refWeekday, weekday) ==
  LET diff == weekday - refWeekday
      forward == IF diff < 0 THEN diff + 7 ELSE diff
      backward == IF diff >= 0 THEN diff - 7 ELSE diff
  IN IF forward < -backward THEN forward ELSE backward

\* getDay() of the day of March.
getDay(day) == (day - 1) % 7

\* chrono.parse(text, { instant: referenceDate, timezone }): no result for a
\* text without date or time, else the components of the first result.
chronoParse(day, time, referenceDate, serverZone) ==
  LET ref == formatToParts(referenceDate, serverZone)
      d == IF day.type = "weekday" THEN ref.day + getDaysToWeekdayClosest(getDay(ref.day), day.value)
           ELSE IF day.type = "date" THEN day.value
           ELSE ref.day
  IN [found |-> day.type # "none" \/ time.certain,
      year |-> ref.year, month |-> ref.month, day |-> d,
      hour |-> time.hour, minute |-> time.minute, certainHour |-> time.certain]

\* ------------------------------------------------------------ results
ParseFailure ==
  [success |-> FALSE, isRange |-> FALSE, needsTimeSpecified |-> FALSE,
   rangeStart |-> Null, rangeEnd |-> Null, start |-> Null, end |-> Null]

RangeResult(rangeStart, rangeEnd, needsTimeSpecified) ==
  [success |-> TRUE, isRange |-> TRUE, needsTimeSpecified |-> needsTimeSpecified,
   rangeStart |-> rangeStart, rangeEnd |-> rangeEnd, start |-> rangeStart, end |-> rangeEnd]

SlotResult(startDate) ==
  [success |-> TRUE, isRange |-> FALSE, needsTimeSpecified |-> FALSE,
   rangeStart |-> Null, rangeEnd |-> Null, start |-> startDate, end |-> startDate]

\* The date of parseAfterTime and parseTimeOfDay: the date the library reads
\* in the rest of the input, a week later for the name of a weekday whose
\* midnight UTC is before the reference (setDate counts in the zone of the
\* server, the fields are read back in UTC); without a rest, the date of the
\* reference in the zone of the server.
InferredDate(day, referenceDate, serverZone) ==
  LET parsed == chronoParse(day, NoTime, referenceDate, serverZone)
      testDate == DateUTC(parsed.year, parsed.month - 1, parsed.day, 0, 0)
      moved == FromLocal(testDate + getTimezoneOffsetMs(testDate, serverZone) + 7 * 1440, serverZone)
      ref == formatToParts(referenceDate, serverZone)
  IN IF day.type = "none" THEN [year |-> ref.year, month |-> ref.month - 1, day |-> ref.day]
     ELSE IF day.type = "weekday" /\ testDate < referenceDate
     THEN LET utc == formatToParts(moved, "UTC")
          IN [year |-> utc.year, month |-> utc.month - 1, day |-> utc.day]
     ELSE [year |-> parsed.year, month |-> parsed.month - 1, day |-> parsed.day]

\* The range of a date from hour start to hour end, both shifted by the offset
\* looked up at the start.
RangeOn(date, start, end, timezone) ==
  LET startUtc == DateUTC(date.year, date.month, date.day, start, 0)
      endUtc == DateUTC(date.year, date.month, date.day, end, 0)
      offsetMs == getTimezoneOffsetMs(startUtc, timezone)
  IN RangeResult(startUtc - offsetMs, endUtc - offsetMs, FALSE)

\* The hour of 'after H': pm below 12 and a bare hour below 9 mean the
\* afternoon, 12am is midnight.
AfterHour(hour, meridiem) ==
  IF meridiem = "pm" /\ hour < 12 THEN hour + 12
  ELSE IF meridiem = "am" /\ hour = 12 THEN 0
  ELSE IF meridiem = "" /\ hour < 12 /\ hour < DEFAULT_START_HOUR THEN hour + 12
  ELSE hour

\* parseAfterTime(input, match, timezone, referenceDate)
parseAfterTime(input, timezone, referenceDate, serverZone) ==
  RangeOn(InferredDate(input.day, referenceDate, serverZone),
          AfterHour(input.after.hour, input.after.meridiem), DEFAULT_END_HOUR, timezone)

\* parseTimeOfDay(input, period, hours, timezone, referenceDate)
parseTimeOfDay(input, period, hours, timezone, referenceDate, serverZone) ==
  RangeOn(InferredDate(input.day, referenceDate, serverZone), hours.start, hours.end, timezone)

\* The start the standard path builds from the components of the library, a
\* week later for an input that begins with the name of a weekday and would
\* start before the reference.
StartDate(parsed, isWeekdayOnly, timezone, referenceDate) ==
  LET utcDate == DateUTC(parsed.year, parsed.month - 1, parsed.day, parsed.hour, parsed.minute)
      startDate == utcDate - getTimezoneOffsetMs(utcDate, timezone)
      later == utcDate + 7 * 24 * 60
  IN IF isWeekdayOnly /\ startDate < referenceDate
     THEN later - getTimezoneOffsetMs(later, timezone)
     ELSE startDate

\* parseDateTime(input, timezone, referenceDate)
parseDateTime(input, timezone, referenceDate, serverZone) ==
  IF input.after.present THEN parseAfterTime(input, timezone, referenceDate, serverZone)
  ELSE IF input.period # ""
  THEN parseTimeOfDay(input, input.period, TIME_RANGES(input.period), timezone, referenceDate, serverZone)
  ELSE LET parsed == chronoParse(input.day, input.time, referenceDate, serverZone)
           startDate == StartDate(parsed, input.day.type = "weekday", timezone, referenceDate)
       IN IF ~parsed.found THEN ParseFailure
          ELSE IF ~parsed.certainHour
          THEN RangeResult(createDateInTimezone(startDate, DEFAULT_START_HOUR, 0, timezone),
                           createDateInTimezone(startDate, DEFAULT_END_HOUR, 0, timezone), TRUE)
          ELSE SlotResult(startDate)

\* ------------------------------------------- parseDateTime on its inputs
\* The words for the day: none, today, Sunday, Wednesday, Friday, March 8.
DayWords == {NoDay, Today, Weekday(0), Weekday(3), Weekday(5), OnDate(8)}
TimeWords == {NoTime} \cup {AtTime(hour, minute) : hour \in 0..23, minute \in {0, 30}}
AfterWords == {After(hour, meridiem) : hour \in 0..12, meridiem \in {"", "am", "pm"}}
PeriodWords == {"morning", "afternoon", "evening"}

Inputs ==
  {Input(day, time, NoAfter, "") : day \in DayWords, time \in TimeWords}
    \cup {Input(day, NoTime, after, "") : day \in DayWords, after \in AfterWords}
    \cup {Input(day, NoTime, NoAfter, period) : day \in DayWords, period \in PeriodWords}

\* Reference instants: Wednesday 2026-03-04 at 00:00, 15:00 and 20:00 UTC, and
\* Sunday 2026-03-08 12:00 UTC, the day of the transition.
ReferenceDates == {3 * 1440, 3 * 1440 + 900, 3 * 1440 + 1200, 7 * 1440 + 720}

InitParse ==
  /\ InitHeld
  /\ \E input \in Inputs, timezone \in Zones, referenceDate \in ReferenceDates,
        serverZone \in ServerZones :
       calc = [op |-> "parseDateTime", input |-> input, timezone |-> timezone,
               referenceDate |-> referenceDate, serverZone |-> serverZone,
               done |-> FALSE, result |-> ParseFailure]

\* The call parseDateTime(input, timezone, referenceDate) returns.
CallParseDateTime ==
  /\ calc.op = "parseDateTime"
  /\ ~calc.done
  /\ calc' = [calc EXCEPT !.done = TRUE,
                          !.result = parseDateTime(calc.input, calc.timezone, calc.referenceDate,
                                                   calc.serverZone)]
  /\ UNCHANGED held

NextParse == CallParseDateTime

SpecParse == InitParse /\ [][NextParse]_vars

Parsed == calc.op = "parseDateTime" /\ calc.done

\* The wall-clock time is one the zone has: some instant shows it.
ExistsIn(wall, timezone) ==
  \E offset \in {StandardOffset(timezone), StandardOffset(timezone) + 60} :
    formatToParts(DateUTC(wall.year, wall.month - 1, wall.day, wall.hour, wall.minute) - offset,
                  timezone) = wall

WallClock(day, hour, minute) == [year |-> 2026, month |-> 3, day |-> day, hour |-> hour, minute |-> minute]

\* ------------------------------------------------------------------ C21
\* C21: the instant the parser builds for a wall-clock date and time that
\* exists in the zone shows the same date and time in that zone: the start of
\* a result with a time of day, and the 09:00 and 20:00 bounds that
\* createDateInTimezone builds for a date without one.
C21_RoundTrip ==
  (Parsed /\ ~calc.input.after.present /\ calc.input.period = ""
     /\ calc.input.day.type # "weekday" /\ calc.result.success) =>
    LET parsed == chronoParse(calc.input.day, calc.input.time, calc.referenceDate, calc.serverZone)
        wall == WallClock(parsed.day, parsed.hour, parsed.minute)
    IN IF parsed.certainHour
       THEN ExistsIn(wall, calc.timezone) => formatToParts(calc.result.start, calc.timezone) = wall
       ELSE /\ formatToParts(calc.result.rangeStart, calc.timezone)
                 = WallClock(parsed.day, DEFAULT_START_HOUR, 0)
            /\ formatToParts(calc.result.rangeEnd, calc.timezone)
                 = WallClock(parsed.day, DEFAULT_END_HOUR, 0)

\* ------------------------------------------------------------------ C22
\* The input names a weekday and neither a date nor a time of day.
WeekdayOnly == calc.input.day.type = "weekday" /\ ~calc.input.time.certain

\* C22: for an input that names only a weekday, when the reference instant is
\* on that weekday in the zone the result is on the day seven days after the
\* day of the reference, and in every case the result does not start before
\* the reference instant.
C22_NextOccurrence ==
  (Parsed /\ WeekdayOnly) =>
    LET ref == formatToParts(calc.referenceDate, calc.timezone)
    IN /\ calc.result.success
       /\ getDay(ref.day) = calc.input.day.value =>
            formatToParts(calc.result.start, calc.timezone).day = ref.day + 7
       /\ calc.result.start >= calc.referenceDate

\* ------------------------------------------------------------------ C23
\* The hour 'after H' starts at, as the rule is worded.
C23_Hour(hour, meridiem) ==
  CASE meridiem = "pm" /\ hour < 12 -> hour + 12
    [] meridiem = "am" /\ hour = 12 -> 0
    [] meridiem = "" /\ hour < 9 -> hour + 12
    [] OTHER -> hour

\* C23: an input with 'after H' gives a range that is successful, isRange and
\* not needsTimeSpecified, from the hour of the rule at :00 to 20:00, both read
\* in the zone, on the date the parser inferred.
C23_AfterRange ==
  (Parsed /\ calc.input.after.present) =>
    LET date == InferredDate(calc.input.day, calc.referenceDate, calc.serverZone)
        from == WallClock(date.day, C23_Hour(calc.input.after.hour, calc.input.after.meridiem), 0)
    IN /\ calc.result.success /\ calc.result.isRange /\ ~calc.result.needsTimeSpecified
       /\ ExistsIn(from, calc.timezone) =>
            /\ formatToParts(calc.result.rangeStart, calc.timezone) = from
            /\ formatToParts(calc.result.rangeEnd, calc.timezone) = WallClock(date.day, DEFAULT_END_HOUR, 0)

\* ------------------------------------------------------------------ C29
\* C29: a successful range starts before it ends, and starts and ends on one
\* date of the zone.
C29_RangeOrdered ==
  (Parsed /\ calc.result.success /\ calc.result.isRange) =>
    /\ calc.result.rangeStart < calc.result.rangeEnd
    /\ LET from == formatToParts(calc.result.rangeStart, calc.timezone)
           to == formatToParts(calc.result.rangeEnd, calc.timezone)
       IN <<from.year, from.month, from.day>> = <<to.year, to.month, to.day>>

====
